---- MODULE Spec2Model ----
(***************************************************************************)
(* A model of the container sharder (swift/container/sharder.py): one      *)
(* container database ("the broker") on one node, driven through           *)
(* ContainerSharder._process_broker cycle by cycle, together with the      *)
(* local shard databases it cleaves into and the shard-range PUTs it       *)
(* sends.                                                                  *)
(*                                                                         *)
(* Strings (object names, range bounds, the cleave cursor) are encoded as  *)
(* naturals that keep their byte order: '' is 0, the names are the even    *)
(* numbers 2, 4, ..., and s + '\x00' is s + 1, the least string above s.   *)
(* A ShardRange bound is a string or the unbounded upper bound MAX, which  *)
(* compares above every string and whose str() is ''.                      *)
(***************************************************************************)
EXTENDS Integers, Sequences, FiniteSets, TLC

\* ------------------------------------------------------------------ bounds

\* Number of distinct object names the container may hold.
MaxName == 3
\* Largest shard_batch_size / shard_scanner_batch_size drawn at start-up.
MaxBatch == 2
\* Number of usage reports the shards send a sharded root.
MaxReports == 3
\* Rows per page of an object listing (CONTAINER_LISTING_LIMIT, scaled down).
PageSize == 2

\* ----------------------------------------------------------------- strings

EmptyStr == 0
NoCursor == -1
Names == {2 * i : i \in 1..MaxName}
WithNul(s) == s + 1
MinBound == EmptyStr
MaxBound == 2 * MaxName + 2
Str(bound) == IF bound = MaxBound THEN EmptyStr ELSE bound
ToUpper(s) == IF s = EmptyStr THEN MaxBound ELSE s

Min2(a, b) == IF a <= b THEN a ELSE b
Max2(a, b) == IF a >= b THEN a ELSE b
RECURSIVE MaxOf(_)
MaxOf(S) == IF S = {} THEN 0
            ELSE LET x == CHOOSE y \in S : TRUE IN Max2(x, MaxOf(S \ {x}))

\* ------------------------------------------------------- db and range states

UNSHARDED == "UNSHARDED"
SHARDING == "SHARDING"
SHARDED == "SHARDED"
COLLAPSED == "COLLAPSED"

SR_FOUND == "FOUND"
SR_CREATED == "CREATED"
SR_CLEAVED == "CLEAVED"
SR_ACTIVE == "ACTIVE"
SR_SHARDING == "SR_SHARDING"
SR_SHRINKING == "SHRINKING"
SR_EXPANDING == "EXPANDING"
SR_SHARDED == "SR_SHARDED"

RangeStates == {SR_FOUND, SR_CREATED, SR_CLEAVED, SR_ACTIVE, SR_SHARDING,
                SR_SHRINKING, SR_EXPANDING, SR_SHARDED}

\* ------------------------------------------------------------- ShardRange

\* A range named by <<kind, timestamp, index>>: kind 0 is the broker's own
\* container, 1 a shard found by this broker's scan (make_path of the scan
\* timestamp and index), 2 a sibling shard known from the root.
OwnName == <<0, 0, 0>>
ScanName(ts, index) == <<1, ts, index>>
SiblingName(index) == <<2, 0, index>>

ShardRange(name, ts, lower, upper, state, count) ==
    [name |-> name, lower |-> lower, upper |-> upper, state |-> state,
     deleted |-> FALSE, object_count |-> count, timestamp |-> ts,
     state_timestamp |-> ts, meta_timestamp |-> ts]

\* ShardRange.update_state: False, and nothing changes, when the state is
\* already the one asked for.
UpdateState(sr, state, now) ==
    IF sr.state = state THEN sr
    ELSE [sr EXCEPT !.state = state, !.state_timestamp = now]

\* ShardRange.update_meta
UpdateMeta(sr, count, now) ==
    [sr EXCEPT !.object_count = count, !.meta_timestamp = now]

\* ShardRange.includes: outer.lower <= inner.lower and inner.upper <= outer.upper
Includes(outer, inner) ==
    outer.lower <= inner.lower /\ inner.upper <= outer.upper

\* ShardRange.overlaps
Overlaps(a, b) == Max2(a.lower, b.lower) < Min2(a.upper, b.upper)

\* An object name lies in a range when lower < name <= upper (the listing
\* marker is exclusive, the end marker upper + '\x00' is exclusive).
InRange(name, lower, upper) == lower < name /\ name < WithNul(upper)

NameLess(a, b) ==
    \/ a[1] < b[1]
    \/ a[1] = b[1] /\ a[2] < b[2]
    \/ a[1] = b[1] /\ a[2] = b[2] /\ a[3] < b[3]

\* The order get_shard_ranges returns its rows in.
RangeBefore(a, b) ==
    \/ a.lower < b.lower
    \/ a.lower = b.lower /\ a.upper < b.upper
    \/ a.lower = b.lower /\ a.upper = b.upper /\ NameLess(a.name, b.name)

RECURSIVE SortRanges(_)
SortRanges(S) ==
    IF S = {} THEN <<>>
    ELSE LET m == CHOOSE r \in S : \A q \in S \ {r} : RangeBefore(r, q)
         IN <<m>> \o SortRanges(S \ {m})

SeqToSet(s) == {s[i] : i \in 1..Len(s)}

\* --------------------------------------------------------- broker (consumed)

\* ContainerBroker.merge_shard_ranges for one row: the newer timestamp wins
\* the whole row; on equal timestamps the newer state_timestamp wins the state
\* and the newer meta_timestamp wins the stats.
MergeRow(old, new) ==
    IF new.timestamp > old.timestamp THEN new
    ELSE IF new.timestamp < old.timestamp THEN old
    ELSE LET s == IF new.state_timestamp > old.state_timestamp
                  THEN [old EXCEPT !.state = new.state,
                                   !.state_timestamp = new.state_timestamp]
                  ELSE old
         IN IF new.meta_timestamp > old.meta_timestamp
            THEN [s EXCEPT !.object_count = new.object_count,
                           !.meta_timestamp = new.meta_timestamp]
            ELSE s

MergeInto(rows, sr) ==
    IF \E r \in rows : r.name = sr.name
    THEN {IF r.name = sr.name THEN MergeRow(r, sr) ELSE r : r \in rows}
    ELSE rows \cup {sr}

RECURSIVE MergeAll(_, _)
MergeAll(rows, srs) ==
    IF srs = <<>> THEN rows ELSE MergeAll(MergeInto(rows, Head(srs)), Tail(srs))

\* ------------------------------------------------------------------ state

VARIABLES
    conf,        \* the daemon's configuration and the broker's place in the ring
    db_state,    \* broker.get_db_state()
    own,         \* the broker's own shard range row
    ranges,      \* the other shard range rows of the broker
    scan_done,   \* sysmeta X-Container-Sysmeta-Shard-Scan-Done is true
    epoch,       \* sysmeta X-Container-Sysmeta-Shard-Epoch (0: none)
    ctx,         \* the persisted cleave context [cursor, done]
    objects,     \* names of the object rows in the broker
    shards,      \* local shard brokers by range name: [objects, rows]
    sent,        \* the _send_shard_ranges calls of the last cycle, in order
    hist,        \* what the last cycle did, and which ranges were ever cleaved
    driver,      \* _one_shard_cycle: the brokers of the cycle and its stats
    call         \* a call of a function of the module: arguments and result

brokerVars == <<conf, db_state, own, ranges, scan_done, epoch, ctx, objects,
                shards, sent, hist, call>>

vars == <<conf, db_state, own, ranges, scan_done, epoch, ctx, objects, shards,
          sent, hist, driver, call>>

\* No function is being called.
NoCall == [op |-> "none"]

\* _zero_stats: the 'visited' counters of stats['sharding']
ZeroStats == [attempted |-> 0, success |-> 0, failure |-> 0, skipped |-> 0]

\* No cycle of the daemon is under way.
NoDriver == [brokers |-> <<>>, next |-> 1, stats |-> ZeroStats, visited |-> {},
             zeroed |-> FALSE, drained |-> FALSE, pc |-> "idle",
             bypass |-> FALSE, cleanups |-> {}, dropped |-> {},
             deleted |-> {}]

\* The world a cycle reads and writes, threaded through its steps.
World ==
    [db_state |-> db_state, own |-> own, ranges |-> ranges,
     scan_done |-> scan_done, epoch |-> epoch, ctx |-> ctx,
     objects |-> objects, shards |-> shards, sent |-> <<>>,
     hist |-> hist]

\* ------------------------------------------------------------ ring and pool

ReplicaCount == 3
Replicas == 1..ReplicaCount
RootName == <<3, 0, 0>>

\* swift.common.utils.quorum_size
QuorumSize(n) == (n \div 2) + 1

\* _put_container on each node: True where the PUT succeeded, False where it
\* raised (the exception is logged, never propagated).
PutResults(nodes_ok) == [n \in Replicas |-> n \in nodes_ok]

\* _send_shard_ranges: one PUT per replica node, then the quorum test on the
\* results the pool hands back.
SendShardRangesWrong(nodes_ok) ==
    Cardinality({n \in Replicas : PutResults(nodes_ok)[n]})
        > QuorumSize(ReplicaCount)
SendShardRangesAny(nodes_ok) ==
    Cardinality({n \in Replicas : PutResults(nodes_ok)[n]}) >= 1
SendShardRanges(nodes_ok) ==
    Cardinality({n \in Replicas : PutResults(nodes_ok)[n]})
        >= QuorumSize(ReplicaCount)

\* The headers of a PUT that matter here: what the PUT is for, and the
\* Scan-Done and Shard-Epoch sysmeta it carries.
Headers(kind, scan, ep) == [kind |-> kind, scan_done |-> scan, epoch |-> ep]
NoHeaders == Headers("none", FALSE, 0)

SendRec(to, rows, nodes_ok, headers) ==
    [to |-> to, rows |-> rows, puts |-> Cardinality(DOMAIN PutResults(nodes_ok)),
     succeeded |-> Cardinality({n \in Replicas : PutResults(nodes_ok)[n]}),
     ok |-> SendShardRanges(nodes_ok), headers |-> headers]

\* cpool.waitall(None) returns the result of every task of the pool that has
\* not been joined: hist.stale holds, for each call, the number of tasks an
\* earlier step left in the pool, whose results are counted with the PUTs.
Send(w, to, rows, nodes_ok, headers) ==
    [w EXCEPT !.sent = Append(@, SendRec(to, rows, nodes_ok, headers)),
              !.hist.stale = Append(@, w.hist.pool),
              !.hist.pool = 0]

IsRoot == conf.is_root
\* is_leader = node['index'] == 0 and self.auto_shard
IsLeaderIndexOnly == conf.node_index = 0
IsLeader == conf.node_index = 0 /\ conf.auto_shard

\* ContainerBroker.is_deleted
IsDeleted == conf.db_deleted

\* The rows of an object table that are not tombstones (the rows that
\* object_count counts).
Live(objs) == objs \ conf.tombstones

\* ------------------------------------------------------ broker (consumed) 2

Stamps(r) == {r.timestamp, r.state_timestamp, r.meta_timestamp}

\* Timestamp.now(): later than every timestamp this broker has stored.
Now(w) == 1 + MaxOf(UNION {Stamps(r) : r \in w.ranges \cup {w.own}})

\* ContainerBroker.get_own_shard_range: the stored row with its stats taken
\* from the object table; the stats keep their timestamp while they are the
\* same.
GetOwnShardRange(w) ==
    IF w.own.object_count = Cardinality(Live(w.objects)) THEN w.own
    ELSE UpdateMeta(w.own, Cardinality(Live(w.objects)), Now(w))

\* ContainerBroker.get_shard_ranges(marker, states): the other, undeleted
\* rows in the given states whose upper lies above the marker, in order.
GetShardRanges(w, states, marker) ==
    SortRanges({r \in w.ranges :
                  ~r.deleted /\ r.state \in states /\ marker < r.upper})

AllRanges(w) == GetShardRanges(w, RangeStates, NoCursor)

\* ContainerBroker.merge_shard_ranges; hist.moves collects the changes of
\* state the merge stores, hist.undeleted whether a deleted row came back.
MergeShardRanges(w, srs) ==
    LET mine == SelectSeq(srs, LAMBDA r : r.name = OwnName)
        others == SelectSeq(srs, LAMBDA r : r.name # OwnName)
        own2 == IF mine = <<>> THEN w.own
                ELSE CHOOSE o \in MergeAll({w.own}, mine) : TRUE
        ranges2 == MergeAll(w.ranges, others)
        pairs == {p \in (w.ranges \cup {w.own}) \X (ranges2 \cup {own2}) :
                     p[1].name = p[2].name}
    IN [w EXCEPT !.own = own2,
                 !.ranges = ranges2,
                 !.hist.moves = @ \cup {<<p[1].state, p[2].state>> :
                                    p \in {q \in pairs : q[1].state # q[2].state}},
                 !.hist.undeleted =
                     @ \/ \E p \in pairs : p[1].deleted /\ ~p[2].deleted]

\* The object names of a set in name order.
RECURSIVE SortNames(_)
SortNames(S) ==
    IF S = {} THEN <<>>
    ELSE LET m == CHOOSE x \in S : \A y \in S : x <= y
         IN <<m>> \o SortNames(S \ {m})

\* ContainerBroker.find_shard_ranges: ranges of shard_size rows each from the
\* upper bound of the last existing range on, at most limit of them; the one
\* that reaches the end of the namespace takes the rows left and own.upper.
\* It may also find nothing and say so (scan_ok is false).
RECURSIVE FindLoop(_, _, _, _, _, _)
FindLoop(names, last_upper, own_upper, shard_size, limit, index) ==
    IF limit = 0 THEN [data |-> <<>>, last_found |-> FALSE]
    ELSE IF Len(names) <= shard_size
    THEN [data |-> <<[lower |-> last_upper, upper |-> own_upper,
                      object_count |-> Len(names), index |-> index]>>,
          last_found |-> TRUE]
    ELSE LET upper == names[shard_size]
             rest == FindLoop(SubSeq(names, shard_size + 1, Len(names)), upper,
                              own_upper, shard_size, limit - 1, index + 1)
         IN [data |-> <<[lower |-> last_upper, upper |-> upper,
                         object_count |-> shard_size, index |-> index]>>
                      \o rest.data,
             last_found |-> rest.last_found]

BrokerFindShardRanges(w, shard_size, limit, scan_ok) ==
    LET existing == AllRanges(w)
        last_upper == IF existing = <<>> THEN w.own.lower
                      ELSE existing[Len(existing)].upper
        todo == {n \in Live(w.objects) : InRange(n, last_upper, w.own.upper)}
    IN IF shard_size = 0 \/ ~scan_ok
       THEN [data |-> <<>>, last_found |-> FALSE]
       ELSE IF existing # <<>> /\ last_upper >= w.own.upper
       THEN [data |-> <<>>, last_found |-> TRUE]
       ELSE FindLoop(SortNames(todo), last_upper, w.own.upper, shard_size,
                     limit, Len(existing))

\* ContainerBroker.get_objects(limit, marker, end_marker, include_deleted):
\* the first limit names above the marker and below the end marker ('': no
\* end), in order; tombstones only when include_deleted is set.
GetObjects(objs, limit, marker, end_marker, include_deleted) ==
    LET all == SortNames({n \in objs :
                             /\ marker < n
                             /\ end_marker = EmptyStr \/ n < end_marker
                             /\ include_deleted \/ n \notin conf.tombstones})
    IN SubSeq(all, 1, Min2(limit, Len(all)))

\* ShardRange.end_marker
EndMarker(upper) == IF upper = MaxBound THEN EmptyStr ELSE WithNul(Str(upper))

\* The loop of yield_objects with pages of limit rows: the pages of the
\* listing of (lower, upper], tombstones included, the last one shorter than
\* the limit (and empty when the rows fill the pages). The first variant
\* lists without include_deleted.
RECURSIVE ListPagesLive(_, _, _, _)
ListPagesLive(limit, objs, lower, upper) ==
    LET page == GetObjects(objs, limit, Str(lower), EndMarker(upper), FALSE)
    IN IF Len(page) < limit THEN <<page>>
       ELSE <<page>> \o ListPagesLive(limit, objs, page[Len(page)], upper)
RECURSIVE ListPages(_, _, _, _)
ListPages(limit, objs, lower, upper) ==
    LET page == GetObjects(objs, limit, Str(lower), EndMarker(upper), TRUE)
    IN IF Len(page) < limit THEN <<page>>
       ELSE <<page>> \o ListPages(limit, objs, page[Len(page)], upper)

\* yield_objects: pages of CONTAINER_LISTING_LIMIT rows
YieldObjects(objs, lower, upper) == ListPages(PageSize, objs, lower, upper)

\* ----------------------------------------------------------------- sharder

\* config: shard_shrink_point and shard_shrink_merge_point, in percent
ShrinkPoint == 25
MergePoint == 75

\* ShardRange.copy(timestamp=..., state=..., deleted=1)
CopyDeleted(sr, ts, state) ==
    [sr EXCEPT !.timestamp = ts, !.state = state, !.deleted = TRUE]

\* _find_sharding_candidates: every candidate holding at least
\* shard_container_size objects is marked SHARDING and stored.
FindShardingCandidates(w, cands) ==
    LET big == SelectSeq(cands,
                   LAMBDA r : r.object_count >= conf.shard_container_size)
        marked == [i \in 1..Len(big) |-> UpdateState(big[i], SR_SHARDING, Now(w))]
    IN [w |-> MergeShardRanges(w, marked), n |-> Len(marked)]

\* make_shard_ranges: one FOUND row per found range, all with the timestamp
\* of the scan and named by it and the range's index.
MakeShardRangesAboveLower(data, ts) ==
    [i \in 1..Len(data) |->
        ShardRange(ScanName(ts, data[i].index), ts, WithNul(data[i].lower),
                   data[i].upper, SR_FOUND, data[i].object_count)]
MakeShardRanges(data, ts) ==
    [i \in 1..Len(data) |->
        ShardRange(ScanName(ts, data[i].index), ts, data[i].lower,
                   data[i].upper, SR_FOUND, data[i].object_count)]

\* _find_shard_ranges: returns (last_found, num_found)
FindShardRanges(w, scan_ok) ==
    LET found == BrokerFindShardRanges(w, conf.shard_container_size \div 2,
                                       conf.scanner_batch_size, scan_ok)
        shard_ranges == MakeShardRanges(found.data, Now(w))
        w1 == MergeShardRanges(w, shard_ranges)
        w2 == IF IsRoot THEN w1
              ELSE Send(w1, RootName, shard_ranges, Replicas, NoHeaders)
    IN IF found.data = <<>>
       THEN [w |-> IF found.last_found THEN [w EXCEPT !.scan_done = TRUE] ELSE w,
             last_found |-> found.last_found, n |-> 0]
       ELSE [w |-> IF found.last_found THEN [w2 EXCEPT !.scan_done = TRUE] ELSE w2,
             last_found |-> found.last_found, n |-> Len(shard_ranges)]

\* The replica nodes whose PUT succeeds in the i-th creation of a cycle.
CreateNodes(env, i) == IF i = env.create_at THEN env.create_nodes ELSE Replicas

\* What the creation loop does after a PUT that failed to reach quorum.
AfterFailedCreateContinue(rest) == rest
AfterFailedCreate(rest) == <<>>

\* _create_shard_containers, the loop: [created rows, sends]
RECURSIVE CreateLoop(_, _, _, _)
CreateLoop(found, i, env, now) ==
    IF found = <<>> THEN [created |-> <<>>, puts |-> <<>>]
    ELSE LET sr == Head(found)
             older == [sr EXCEPT !.timestamp = sr.timestamp - 1]
             put == SendRec(sr.name, <<older>>, CreateNodes(env, i),
                            Headers("create", FALSE, 0))
             rest == CreateLoop(IF put.ok THEN Tail(found)
                                ELSE AfterFailedCreate(Tail(found)),
                                i + 1, env, now)
         IN [created |-> (IF put.ok THEN <<UpdateState(sr, SR_CREATED, now)>>
                          ELSE <<>>) \o rest.created,
             puts |-> <<put>> \o rest.puts]

\* _create_shard_containers: returns the number of ranges created
CreateShardContainers(w, env) ==
    LET loop == CreateLoop(GetShardRanges(w, {SR_FOUND}, NoCursor), 1, env, Now(w))
        w1 == [w EXCEPT !.sent = @ \o loop.puts]
        w2 == MergeShardRanges(w1, loop.created)
        w3 == IF IsRoot THEN w2
              ELSE Send(w2, RootName, loop.created, Replicas, NoHeaders)
    IN [w |-> [w3 EXCEPT !.hist.created = Len(loop.created),
                         !.hist.create_failed =
                             \E j \in 1..Len(loop.puts) : ~loop.puts[j].ok],
        n |-> Len(loop.created)]

\* ------------------------------------------------------------------ cleave

\* cleave_context.get('cursor') or ''
CursorStr(w) == IF w.ctx.cursor = NoCursor THEN EmptyStr ELSE w.ctx.cursor

\* ranges_todo: the CREATED, CLEAVED and ACTIVE ranges above the cursor
RangesTodoIgnoringCursor(w) ==
    GetShardRanges(w, {SR_CREATED, SR_CLEAVED, SR_ACTIVE}, WithNul(EmptyStr))
RangesTodo(w) ==
    GetShardRanges(w, {SR_CREATED, SR_CLEAVED, SR_ACTIVE}, WithNul(CursorStr(w)))

\* broker.get_brokers(): the db files of the broker that hold object rows
GetBrokers(w) == <<w.objects>>

\* The loop of _cleave over the source brokers and the pages of each: the
\* rows merged into the shard broker (merge_items).
RECURSIVE Flatten(_)
Flatten(pages) ==
    IF pages = <<>> THEN <<>> ELSE Head(pages) \o Flatten(Tail(pages))

RECURSIVE CleaveObjects(_, _)
CleaveObjects(brokers, sr) ==
    IF brokers = <<>> THEN {}
    ELSE SeqToSet(Flatten(YieldObjects(Head(brokers), sr.lower, sr.upper)))
         \cup CleaveObjects(Tail(brokers), sr)

ShardBroker(w, name) ==
    IF name \in DOMAIN w.shards THEN w.shards[name]
    ELSE [objects |-> {}, rows |-> {}]

\* The state a CREATED range gets once its rows are in the shard broker
\* (two variants first: FOUND, and CLEAVED whatever the source is).
CleavedStateFound == SR_FOUND
CleavedStateCleaved == SR_CLEAVED
CleavedState == IF IsRoot THEN SR_ACTIVE ELSE SR_CLEAVED

\* _cleave, the own range after a turn of the loop: a deleted SHARDED copy
\* when the turn is a shrink and the own range is not SHARDED yet. The first
\* variant never makes the copy.
DeletedOwnNever(mem_own, shrinking, now) == mem_own
DeletedOwn(mem_own, shrinking, now) ==
    IF shrinking /\ mem_own.state # SR_SHARDED
    THEN CopyDeleted(mem_own, now, SR_SHARDED)
    ELSE mem_own

\* One turn of the loop of _cleave for shard_range sr: acc holds the world,
\* the local own_shard_range and ranges_done.
CleaveMerged(acc, sr, copied) ==
    LET w == acc.w
        now == Now(w)
        shrinking == Includes(sr, acc.mem_own)
        \* _get_shard_broker(force=True): the range row is merged
        sb1 == [ShardBroker(w, sr.name) EXCEPT !.rows = MergeInto(@, sr)]
        \* yield_objects of every source broker, merged page by page
        sb2 == [sb1 EXCEPT !.objects = @ \cup copied]
        own2 == DeletedOwn(acc.mem_own, shrinking, now)
        w2 == IF own2 # acc.mem_own THEN MergeShardRanges(w, <<own2>>) ELSE w
        sr2 == IF ~shrinking /\ sr.state = SR_CREATED
               THEN UpdateState(UpdateMeta(sr, Cardinality(Live(sb2.objects)), now),
                                CleavedState, now)
               ELSE sr
        sb3 == IF shrinking THEN [sb2 EXCEPT !.rows = MergeInto(@, own2)]
               ELSE IF sr.state = SR_CREATED
               THEN [sb2 EXCEPT !.rows = MergeInto(@, sr2)]
               ELSE sb2
    IN [w |-> [w2 EXCEPT !.shards = (sr.name :> sb3) @@ @,
                         !.hist.twice = @ \cup ({sr.name} \cap w.hist.once),
                         !.hist.once = @ \cup {sr.name},
                         !.hist.cleft = Append(@, sr.name),
                         !.hist.pool = @ + 1,
                         !.hist.turns = Append(@,
                            [sr |-> sr, shrinking |-> shrinking, done |-> sr2,
                             own_before |-> acc.mem_own, own_after |-> own2,
                             source_own |-> w2.own, shard |-> sb3])],
        mem_own |-> own2,
        done |-> Append(acc.done, sr2),
        stop |-> "none"]

CleaveOne(acc, sr) ==
    CleaveMerged(acc, sr, CleaveObjects(GetBrokers(acc.w), sr))

\* The loop of _cleave over the batch; env says at which range, if any, no
\* handoff device is found (DeviceUnavailable) or the process is killed.
RECURSIVE CleaveLoop(_, _, _, _)
CleaveLoop(acc, batch, i, env) ==
    IF env.stop_kind # "none" /\ env.stop_at = i /\ i <= Len(batch) + 1
       /\ (env.stop_kind = "kill" \/ i <= Len(batch))
    THEN [acc EXCEPT !.stop = env.stop_kind,
                     !.w.hist.blocked = IF env.stop_kind = "dev"
                                        THEN batch[i].name ELSE @]
    ELSE IF i > Len(batch) THEN acc
    ELSE CleaveLoop(CleaveOne(acc, batch[i]), batch, i + 1, env)

\* The cursor and done flag _cleave persists after a batch.
NewContextAlwaysDone(w, done, own_upper) ==
    [cursor |-> Str(done[Len(done)].upper), done |-> TRUE]
NewContext(w, done, own_upper) ==
    [cursor |-> Str(done[Len(done)].upper),
     done |-> w.ctx.done \/ done[Len(done)].upper >= own_upper]

\* _cleave when the loop is left early: nothing of the batch is merged or
\* persisted, and False is returned. The first variant stores the ranges
\* done so far and moves the cursor over the range that found no device.
AfterStopPersisting(acc, batch) ==
    IF acc.stop # "dev" THEN [w |-> acc.w, ret |-> FALSE, stop |-> acc.stop]
    ELSE [w |-> [MergeShardRanges(acc.w, acc.done) EXCEPT
                    !.ctx.cursor = Str(batch[Len(acc.done) + 1].upper)],
          ret |-> FALSE, stop |-> acc.stop]
AfterStop(acc, batch) == [w |-> acc.w, ret |-> FALSE, stop |-> acc.stop]

\* _cleave: ret is its return value, stop how the loop ended. Each turn of
\* the loop spawns a replication on the pool (hist.pool counts the tasks not
\* joined); after the loop the ranges done and the context are stored, with
\* hist.persist_pool the tasks not joined at that moment, and then the pool
\* is joined. The early return joins nothing.
Cleave(w, env) ==
    IF w.db_state = SHARDED \/ w.ctx.done
    THEN [w |-> w, ret |-> TRUE, stop |-> "none"]
    ELSE LET todo == RangesTodo(w) IN
    IF todo = <<>> THEN [w |-> w, ret |-> TRUE, stop |-> "none"]
    ELSE LET batch == SubSeq(todo, 1, Min2(conf.shard_batch_size, Len(todo)))
             acc == CleaveLoop([w |-> w, mem_own |-> GetOwnShardRange(w),
                                done |-> <<>>, stop |-> "none"], batch, 1, env)
         IN IF acc.stop # "none" THEN AfterStop(acc, batch)
            ELSE [w |-> [MergeShardRanges(acc.w, acc.done) EXCEPT
                            !.ctx = NewContext(acc.w, acc.done, acc.mem_own.upper),
                            !.hist.persist_pool = acc.w.hist.pool,
                            !.hist.pool = 0],
                  ret |-> Len(acc.done) = Len(todo),
                  stop |-> "none"]

\* _process_broker, the block that completes sharding: CLEAVED ranges become
\* ACTIVE, the own range SHARDED with no stats (and deleted unless root),
\* and the db moves to SHARDED. The first variant stores the own range of a
\* shard undeleted and leaves the CLEAVED ranges as they are.
CompleteShardingOwnOnly(w) ==
    LET now == Now(w)
        own1 == UpdateMeta(UpdateState(GetOwnShardRange(w), SR_SHARDED, now),
                           0, now)
        w1 == MergeShardRanges(w, <<own1>>)
    IN [w1 EXCEPT
            !.db_state = SHARDED,
            !.hist.completed = TRUE,
            !.hist.completed_own = w1.own,
            !.hist.active = {[name |-> r.name, lower |-> r.lower, upper |-> r.upper] :
                                r \in {q \in w1.ranges :
                                          ~q.deleted /\ q.state = SR_ACTIVE}}]
CompleteSharding(w) ==
    LET now == Now(w)
        cleaved == GetShardRanges(w, {SR_CLEAVED}, NoCursor)
        modified == [i \in 1..Len(cleaved) |->
                        UpdateState(cleaved[i], SR_ACTIVE, now)]
        own1 == UpdateMeta(UpdateState(GetOwnShardRange(w), SR_SHARDED, now),
                           0, now)
        own2 == IF ~IsRoot /\ ~own1.deleted
                THEN CopyDeleted(own1, now, own1.state) ELSE own1
        w1 == MergeShardRanges(w, Append(modified, own2))
    IN [w1 EXCEPT
            !.db_state = SHARDED,
            !.hist.completed = TRUE,
            !.hist.completed_own = w1.own,
            !.hist.active = {[name |-> r.name, lower |-> r.lower, upper |-> r.upper] :
                                r \in {q \in w1.ranges :
                                          ~q.deleted /\ q.state = SR_ACTIVE}}]

\* ------------------------------------------------------------------ shrink

\* _find_shrinks, the test that makes (donor, acceptor) a merge pair. The
\* first variant does not look at the size of the merged pair.
ShrinkEligibleAnyMerge(donor, acceptor) ==
    \/ donor.state = SR_SHRINKING
    \/ donor.object_count * 100 < conf.shard_container_size * ShrinkPoint
ShrinkEligible(donor, acceptor) ==
    \/ donor.state = SR_SHRINKING
    \/ /\ donor.object_count * 100 < conf.shard_container_size * ShrinkPoint
       /\ (donor.object_count + acceptor.object_count) * 100
              < conf.shard_container_size * MergePoint

\* _find_shrinks, donor in merge_pairs: the range was made an acceptor by
\* the pair before. The first variant never finds it there.
AlreadyAcceptorNever(pairs, donor) == FALSE
AlreadyAcceptor(pairs, donor) ==
    \E k \in 1..Len(pairs) : pairs[k].acceptor.name = donor.name

\* _find_shrinks, the loop over adjacent ranges: merge_pairs in the order
\* made. The first variant takes the upper range of a pair as the donor and
\* the lower as the acceptor.
RECURSIVE MergePairsDownward(_, _, _)
MergePairsDownward(srs, i, pairs) ==
    IF i >= Len(srs) THEN pairs
    ELSE LET donor == srs[i + 1]
             acceptor == srs[i]
             take ==
                /\ ~AlreadyAcceptor(pairs, donor)
                /\ acceptor.name = OwnName
                     \/ acceptor.state \in {SR_ACTIVE, SR_EXPANDING}
                /\ donor.state \in {SR_ACTIVE, SR_SHRINKING}
                /\ ShrinkEligible(donor, acceptor)
         IN MergePairsDownward(srs, i + 1,
                IF take THEN Append(pairs, [acceptor |-> acceptor, donor |-> donor])
                ELSE pairs)
RECURSIVE MergePairs(_, _, _)
MergePairs(srs, i, pairs) ==
    IF i >= Len(srs) THEN pairs
    ELSE LET donor == srs[i]
             acceptor == srs[i + 1]
             take ==
                /\ ~AlreadyAcceptor(pairs, donor)
                /\ acceptor.name = OwnName
                     \/ acceptor.state \in {SR_ACTIVE, SR_EXPANDING}
                /\ donor.state \in {SR_ACTIVE, SR_SHRINKING}
                /\ ShrinkEligible(donor, acceptor)
         IN MergePairs(srs, i + 1,
                IF take THEN Append(pairs, [acceptor |-> acceptor, donor |-> donor])
                ELSE pairs)

\* _find_shrinks, the timestamp of the acceptor copy sent to the donor: the
\* donor's state_timestamp. The first variant takes the time of the run.
ExpandedStampNow(donor, now) == now
ExpandedStamp(donor, now) == donor.state_timestamp

\* _find_shrinks, what is stored and sent for one merge pair
ShrinkOne(w, pair) ==
    LET now == Now(w)
        acceptor == UpdateState(pair.acceptor, SR_EXPANDING, now)
        donor == UpdateState(pair.donor, SR_SHRINKING, now)
        modified == (IF acceptor # pair.acceptor THEN <<acceptor>> ELSE <<>>)
                    \o (IF donor # pair.donor THEN <<donor>> ELSE <<>>)
        w1 == MergeShardRanges(w, modified)
        w2 == IF acceptor.name # OwnName
              THEN Send(w1, acceptor.name, <<acceptor>>, Replicas, NoHeaders)
              ELSE w1
        expanded == IF acceptor.name # OwnName
                    THEN [acceptor EXCEPT
                             !.timestamp = ExpandedStamp(donor, now),
                             !.lower = donor.lower,
                             !.state = SR_ACTIVE,
                             !.object_count = @ + donor.object_count]
                    ELSE UpdateState(acceptor, SR_ACTIVE, now + 1)
    IN Send(w2, donor.name, <<donor, expanded>>, Replicas,
            Headers("shrink", TRUE, donor.state_timestamp))

RECURSIVE ShrinkAll(_, _)
ShrinkAll(w, pairs) ==
    IF pairs = <<>> THEN w ELSE ShrinkAll(ShrinkOne(w, Head(pairs)), Tail(pairs))

\* _find_shrinks, the ranges paired: the own range comes after the last
\* shard of a root that has one shard left. The first variant leaves the
\* own range out.
ShrinkCandidatesNoOwn(srs, me) == srs
ShrinkCandidates(srs, me) == IF Len(srs) = 1 THEN Append(srs, me) ELSE srs

\* _find_shrinks, the loop over merge_pairs
ShrinkPairs(w, all, pairs) ==
    [ShrinkAll(w, pairs) EXCEPT !.hist.pairs = Len(pairs),
                                !.hist.merge_pairs = pairs,
                                !.hist.candidates = all]

ShrinkFrom(w, all) == ShrinkPairs(w, all, MergePairs(all, 1, <<>>))

FindShrinks(w) ==
    ShrinkFrom(w, ShrinkCandidates(AllRanges(w), GetOwnShardRange(w)))

\* ------------------------------------------------------ misplaced objects

NoneName == <<4, 0, 0>>
NoDest == ShardRange(NoneName, 0, MinBound, MinBound, "NONE", 0)

NextOrNone(it) == IF it = <<>> THEN NoDest ELSE Head(it)

\* yield_objects_to_shard_range, the while loop that leaves the destinations
\* the object lies above: st is [dest, it, last, next, out]. The first
\* variant also leaves the destination whose upper bound names the object.
RECURSIVE SkipDestsAtUpper(_, _, _)
SkipDestsAtUpper(st, objs, name) ==
    IF st.dest.name # NoneName /\ name >= st.dest.upper
    THEN SkipDestsAtUpper(
             [st EXCEPT
                !.out = IF st.next # st.last
                        THEN Append(@, [objs |-> SubSeq(objs, st.last + 1, st.next),
                                        dest |-> st.dest])
                        ELSE @,
                !.last = st.next,
                !.dest = NextOrNone(st.it),
                !.it = IF st.it = <<>> THEN <<>> ELSE Tail(st.it)],
             objs, name)
    ELSE st
RECURSIVE SkipDests(_, _, _)
SkipDests(st, objs, name) ==
    IF st.dest.name # NoneName /\ name > st.dest.upper
    THEN SkipDests(
             [st EXCEPT
                !.out = IF st.next # st.last
                        THEN Append(@, [objs |-> SubSeq(objs, st.last + 1, st.next),
                                        dest |-> st.dest])
                        ELSE @,
                !.last = st.next,
                !.dest = NextOrNone(st.it),
                !.it = IF st.it = <<>> THEN <<>> ELSE Tail(st.it)],
             objs, name)
    ELSE st

\* yield_objects_to_shard_range, the loop over the objects of one page
RECURSIVE PlacePage(_, _, _)
PlacePage(st, objs, i) ==
    IF i > Len(objs)
    THEN IF st.next # st.last
         THEN [st EXCEPT !.out = Append(@,
                  [objs |-> SubSeq(objs, st.last + 1, st.next),
                   dest |-> IF st.unplaced THEN NoDest ELSE st.dest])]
         ELSE st
    ELSE IF st.dest.name = NoneName
    THEN [st EXCEPT !.out = Append(@,
              [objs |-> SubSeq(objs, st.last + 1, Len(objs)), dest |-> NoDest]),
                    !.returned = TRUE]
    ELSE LET s1 == IF objs[i] <= st.dest.lower
                   THEN [st EXCEPT !.unplaced = TRUE]
                   ELSE IF st.unplaced
                   THEN [st EXCEPT
                           !.out = Append(@,
                               [objs |-> SubSeq(objs, st.last + 1, st.next),
                                dest |-> NoDest]),
                           !.last = st.next,
                           !.unplaced = FALSE]
                   ELSE st
             s2 == SkipDests(s1, objs, objs[i])
         IN PlacePage([s2 EXCEPT !.next = @ + 1], objs, i + 1)

\* yield_objects_to_shard_range, the loop over the pages: the tuples
\* (objects, destination) it yields, in order
RECURSIVE PlacePages(_, _)
PlacePages(st, pages) ==
    IF pages = <<>> \/ Head(pages) = <<>> \/ st.returned THEN st.out
    ELSE PlacePages(
             PlacePage([st EXCEPT !.unplaced = FALSE, !.last = 0, !.next = 0],
                       Head(pages), 1),
             Tail(pages))

YieldObjectsToShardRange(objs, lower, upper, dests) ==
    PlacePages([dest |-> NextOrNone(dests),
                it |-> IF dests = <<>> THEN <<>> ELSE Tail(dests),
                last |-> 0, next |-> 0, unplaced |-> FALSE, returned |-> FALSE,
                out |-> <<>>],
               YieldObjects(objs, lower, upper))

\* _get_shard_broker(force=False) and merge_items of one yielded tuple
RECURSIVE MergeMisplaced(_, _)
MergeMisplaced(w, tuples) ==
    IF tuples = <<>> THEN w
    ELSE LET t == Head(tuples)
             sb == ShardBroker(w, t.dest.name)
             sb1 == IF t.dest.name \in DOMAIN w.shards THEN sb
                    ELSE [sb EXCEPT !.rows = MergeInto(@, t.dest)]
         IN MergeMisplaced(
                IF t.dest.name \in {NoneName, OwnName} THEN w
                ELSE [w EXCEPT
                        !.shards = (t.dest.name :>
                            [sb1 EXCEPT !.objects = @ \cup SeqToSet(t.objs)]) @@ @,
                        !.hist.placed = @ \cup SeqToSet(t.objs),
                        !.hist.merged = @ \cup {<<n, t.dest.name>> :
                                                   n \in SeqToSet(t.objs)}],
                Tail(tuples))

\* ContainerBroker.remove_objects(lower, upper) for every destination used.
\* The first variant leaves the loop after the first destination.
RemoveMovedFirst(w, tuples) ==
    LET at == {j \in 1..Len(tuples) :
                  tuples[j].dest.name \notin {NoneName, OwnName}}
        used == IF at = {} THEN {}
                ELSE {tuples[CHOOSE j \in at : \A k \in at : j <= k].dest}
    IN [w EXCEPT !.objects =
           {n \in @ : ~\E d \in used : InRange(n, d.lower, d.upper)},
                 !.hist.removed = @ \cup
           {n \in w.objects : \E d \in used : InRange(n, d.lower, d.upper)}]
RemoveMoved(w, tuples) ==
    LET used == {tuples[i].dest : i \in {j \in 1..Len(tuples) :
                     tuples[j].dest.name \notin {NoneName, OwnName}}}
    IN [w EXCEPT !.objects =
           {n \in @ : ~\E d \in used : InRange(n, d.lower, d.upper)},
                 !.hist.removed = @ \cup
           {n \in w.objects : \E d \in used : InRange(n, d.lower, d.upper)}]

\* _move_misplaced_objects for one query
MoveMisplacedObjects(w, q, dests) ==
    LET tuples == YieldObjectsToShardRange(w.objects, q.lower, q.upper, dests)
    IN RemoveMoved(MergeMisplaced([w EXCEPT !.hist.tuples = @ \o tuples],
                                  tuples), tuples)

\* _misplaced_objects, the namespaces searched. The first variant looks
\* outside the own range whatever the db state.
MisplacedQueriesOutside(w) ==
    LET o == GetOwnShardRange(w)
    IN (IF Str(o.lower) # EmptyStr
        THEN <<[lower |-> MinBound, upper |-> ToUpper(Str(o.lower))]>>
        ELSE <<>>)
       \o (IF Str(o.upper) # EmptyStr
           THEN <<[lower |-> Str(o.upper), upper |-> MaxBound]>>
           ELSE <<>>)
MisplacedQueries(w) ==
    LET o == GetOwnShardRange(w)
        outside == (IF Str(o.lower) # EmptyStr
                    THEN <<[lower |-> MinBound, upper |-> ToUpper(Str(o.lower))]>>
                    ELSE <<>>)
                   \o (IF Str(o.upper) # EmptyStr
                       THEN <<[lower |-> Str(o.upper), upper |-> MaxBound]>>
                       ELSE <<>>)
    IN IF w.db_state = SHARDED
       THEN <<[lower |-> MinBound, upper |-> MaxBound]>>
       ELSE IF w.db_state = SHARDING /\ CursorStr(w) # EmptyStr
       THEN <<[lower |-> MinBound, upper |-> ToUpper(CursorStr(w))]>>
            \o (IF Str(o.upper) # EmptyStr
                THEN <<[lower |-> Str(o.upper), upper |-> MaxBound]>>
                ELSE <<>>)
       ELSE outside

RECURSIVE MoveAll(_, _, _)
MoveAll(w, queries, dests) ==
    IF queries = <<>> THEN w
    ELSE MoveAll(MoveMisplacedObjects(w, Head(queries), dests),
                 Tail(queries), dests)

\* _misplaced_objects once the queries are made and the destinations known
MoveQueried(w, queries, dests) ==
    MoveAll([w EXCEPT !.hist.swept = TRUE, !.hist.queries = queries,
                      !.hist.dests = dests],
            queries, dests)

\* _misplaced_objects; root_ranges is what the root lists when asked. The
\* first variant sweeps without looking at is_deleted or the own state.
MisplacedObjectsAlways(w, root_ranges) ==
    MoveQueried(w, MisplacedQueries(w),
                IF IsRoot THEN AllRanges(w) ELSE root_ranges)
MisplacedObjects(w, root_ranges) ==
    IF IsDeleted \/ w.own.state = SR_EXPANDING THEN w
    ELSE MoveQueried(w, MisplacedQueries(w),
                     IF IsRoot THEN AllRanges(w) ELSE root_ranges)

\* ----------------------------------------------------------- _process_broker

\* The part of _process_broker for a db that is UNSHARDED or COLLAPSED.
StartSharding(w) ==
    LET w1 == IF IsLeader /\ IsRoot
              THEN FindShardingCandidates(w, <<GetOwnShardRange(w)>>).w
              ELSE w
    IN IF AllRanges(w1) # <<>>
       THEN [w1 EXCEPT !.db_state = SHARDING]
       ELSE IF w1.own.state \in {SR_SHARDING, SR_SHRINKING}
       THEN [w1 EXCEPT !.scan_done = FALSE, !.db_state = SHARDING,
                       !.epoch = Now(w1)]
       ELSE w1

\* Whether _process_broker takes the completion block.
MayComplete(scan_complete, cleave_complete) == scan_complete /\ cleave_complete

\* The part of _process_broker for a db in SHARDING state, up to the scan:
\* [w, last_found (scan_complete), n (num_found)]
ScanStep(w, scan_ok) ==
    IF IsLeader /\ ~w.scan_done THEN FindShardRanges(w, scan_ok)
    ELSE [w |-> w, last_found |-> w.scan_done, n |-> 0]

\* ... then the creation of the shard containers of the FOUND ranges
CreateStep(w, env) ==
    IF IsLeader THEN CreateShardContainers(w, env).w ELSE w

\* ... then the cleave and, when the scan and the cleave are complete, the
\* completion of sharding.
CleaveStep(w, scan_complete, env) ==
    LET cl == Cleave(w, env)
        w3 == [cl.w EXCEPT !.hist.scan_complete = scan_complete,
                           !.hist.cleave_ret = IF cl.ret THEN "true" ELSE "false",
                           !.hist.stop = cl.stop,
                           !.hist.killed = @ \/ cl.stop = "kill"]
    IN IF cl.stop # "kill" /\ MayComplete(scan_complete, cl.ret)
       THEN CompleteSharding(w3)
       ELSE w3

RECURSIVE SendEach(_, _)
SendEach(w, srs) ==
    IF srs = <<>> THEN w
    ELSE SendEach(Send(w, Head(srs).name, <<Head(srs)>>, Replicas, NoHeaders),
                  Tail(srs))

\* The part of _process_broker for a root whose db is SHARDED.
ShardedRoot(w) ==
    LET w1 == IF IsLeader
              THEN FindShardingCandidates(FindShrinks(w),
                       GetShardRanges(FindShrinks(w), {SR_ACTIVE}, NoCursor)).w
              ELSE w
    IN SendEach(w1, GetShardRanges(w1, {SR_SHARDING}, NoCursor))

\* The report of a non-root broker to its root: the own range with its
\* current stats is stored and sent (alone while the broker is shrinking).
\* The first variant stamps the stats of the own range anew in every report.
ReportToRootRestamped(w) ==
    LET w1 == MergeShardRanges(w,
                  <<UpdateMeta(GetOwnShardRange(w), Cardinality(w.objects), Now(w))>>)
        rows == IF w1.own.state = SR_SHRINKING THEN <<w1.own>>
                ELSE SortRanges(w1.ranges \cup {w1.own})
    IN Send(w1, RootName, rows, Replicas, NoHeaders)
ReportToRoot(w) ==
    LET w1 == MergeShardRanges(w, <<GetOwnShardRange(w)>>)
        rows == IF w1.own.state = SR_SHRINKING THEN <<w1.own>>
                ELSE SortRanges(w1.ranges \cup {w1.own})
    IN Send(w1, RootName, rows, Replicas, NoHeaders)

\* The shard ranges the root lists to a non-root broker: the broker's own
\* range and the sibling that owns the rest of the namespace.
RootView ==
    SortRanges({[own EXCEPT !.state = SR_ACTIVE, !.deleted = FALSE]} \cup
               (IF own.upper = MaxBound THEN {}
                ELSE {ShardRange(SiblingName(1), 1, own.upper, MaxBound,
                                 SR_ACTIVE, 1)}))

HistReset(h) ==
    [once |-> h.once, twice |-> h.twice, cleft |-> <<>>, stop |-> "none",
     completed |-> FALSE, created |-> 0, create_failed |-> FALSE,
     cleave_ret |-> "none", scan_complete |-> FALSE, found |-> 0,
     pairs |-> 0, placed |-> {}, scanned |-> FALSE, killed |-> h.killed,
     reports |-> h.reports, moves |-> {}, undeleted |-> FALSE, active |-> {},
     faulty |-> FALSE, runs |-> Min2(h.runs + 1, 2), started |-> "none",
     blocked |-> NoneName, swept |-> FALSE, queries |-> <<>>, tuples |-> <<>>,
     merged |-> {}, removed |-> {}, dests |-> <<>>, fetch_failed |-> FALSE,
     sources |-> <<>>, copied |-> NoDest, merge_pairs |-> <<>>,
     candidates |-> <<>>, completed_own |-> NoDest, turns |-> <<>>,
     pool |-> 0, stale |-> <<>>, persist_pool |-> -1,
     after_failed_scan |-> h.cycle /\ h.scanned /\ h.found = 0
                              /\ ~h.scan_complete,
     cycle |-> TRUE]

\* _process_broker up to the state change of an UNSHARDED or COLLAPSED db
BeforeSharding ==
    LET w0 == MisplacedObjects(
                  [World EXCEPT !.hist = [HistReset(@) EXCEPT !.started = db_state]],
                  RootView)
    IN IF ~IsDeleted /\ w0.db_state \in {UNSHARDED, COLLAPSED}
       THEN StartSharding(w0) ELSE w0

\* _process_broker from the end of the SHARDING block on
AfterSharding(b) ==
    LET c == IF b.hist.stop # "kill" /\ b.db_state = SHARDED /\ IsRoot
             THEN ShardedRoot(b) ELSE b
    IN IF IsDeleted THEN b
       ELSE IF c.hist.stop # "kill" /\ ~IsRoot THEN ReportToRoot(c) ELSE c

\* The inputs of the scan of one cycle: whether find_shard_ranges finds
\* anything.
ScanEnvs(w) == {TRUE} \cup (IF IsLeader /\ ~w.scan_done THEN {FALSE} ELSE {})

\* The inputs of the creations of one cycle: which replica PUTs of which
\* creation succeed (every other creation's PUTs all succeed; the replicas
\* are alike, so the sets 1..k stand for k successes).
AllPut == [create_at |-> 1, create_nodes |-> Replicas]
CreateEnvs(w) ==
    {AllPut} \cup
    IF IsLeader
    THEN [create_at : 1..Len(GetShardRanges(w, {SR_FOUND}, NoCursor)),
          create_nodes : {1..k : k \in 0..(ReplicaCount - 1)}]
    ELSE {}

\* The inputs of the cleave of one cycle: whether and at which range of the
\* batch no handoff device is found, or the process is killed (also after
\* the last range, before the context is persisted).
NoStop == [stop_kind |-> "none", stop_at |-> 1]
StopEnvs(w) ==
    {NoStop} \cup
    IF w.db_state = SHARDED \/ w.ctx.done THEN {}
    ELSE LET n == Min2(conf.shard_batch_size, Len(RangesTodo(w)))
         IN [stop_kind : {"dev"}, stop_at : 1..n]
            \cup [stop_kind : {"kill"},
                  stop_at : (IF n = 0 THEN {} ELSE 1..(n + 1))]

InstallWorld(w) ==
    /\ db_state' = w.db_state
    /\ own' = w.own
    /\ ranges' = w.ranges
    /\ scan_done' = w.scan_done
    /\ epoch' = w.epoch
    /\ ctx' = w.ctx
    /\ objects' = w.objects
    /\ shards' = w.shards
    /\ sent' = w.sent
    /\ hist' = w.hist

Install(w) == InstallWorld(w) /\ UNCHANGED <<conf, driver, call>>

\* Whether the sweep of a non-root broker asks the root for its shard
\* ranges: some namespace searched has a row in it.
NeedsFetch(w) ==
    /\ ~IsRoot /\ ~IsDeleted
    /\ w.own.state # SR_EXPANDING
    /\ \E i \in 1..Len(MisplacedQueries(w)) :
          LET q == MisplacedQueries(w)[i]
          IN Head(YieldObjects(w.objects, q.lower, q.upper)) # <<>>

\* The inputs of the sweep: whether _fetch_shard_ranges gets the ranges
\* (it returns None otherwise).
FetchEnvs(w) == {TRUE} \cup (IF NeedsFetch(w) THEN {FALSE} ELSE {})

\* iter(None) in dest_shard_ranges raises TypeError, which nothing catches.
Raised(w) ==
    [w EXCEPT !.hist = [HistReset(@) EXCEPT !.stop = "raise", !.faulty = TRUE,
                                            !.fetch_failed = TRUE,
                                            !.started = w.db_state]]

\* What one call of _process_broker on the broker can have written, with at
\* most one fault in it: a fetch or a scan that fails, a creation PUT that
\* fails on some nodes, a cleave that finds no device, or a kill.
ProcessBrokerOutcomes ==
    UNION {
       IF ~fetched THEN {Raised(World)}
       ELSE
       LET a == BeforeSharding IN
       IF IsDeleted \/ a.db_state # SHARDING THEN {AfterSharding(a)}
       ELSE UNION {
              LET f == ScanStep(a, ok) IN
              UNION {
                LET w2 == [CreateStep(f.w, c) EXCEPT
                              !.hist.found = f.n,
                              !.hist.scanned = IsLeader /\ ~a.scan_done,
                              !.hist.faulty = ~ok \/ c # AllPut] IN
                {AfterSharding(CleaveStep(
                      [w2 EXCEPT !.hist.faulty = @ \/ s # NoStop],
                      f.last_found, s)) :
                   s \in (IF ok /\ c = AllPut THEN StopEnvs(w2) ELSE {NoStop})}
                : c \in (IF ok THEN CreateEnvs(f.w) ELSE {AllPut})}
              : ok \in ScanEnvs(a)}
       : fetched \in FetchEnvs(World)}

\* One call of _process_broker on the broker.
ProcessBroker == \E v \in ProcessBrokerOutcomes : Install(v)

\* ------------------------------------------------------------ environment

\* What the other nodes do to the broker between two cycles.
External(w) ==
    Install([w EXCEPT !.hist = [HistReset(@) EXCEPT !.cycle = FALSE, !.runs = 0]])

\* The shard ranges the leader replica has found and created for the
\* broker's namespace.
PeerRanges ==
    LET data == FindLoop(
                    SortNames({n \in Names : InRange(n, own.lower, own.upper)}),
                    own.lower, own.upper, conf.shard_container_size \div 2,
                    MaxName + 1, 0).data
        found == MakeShardRanges(data, own.timestamp + 2)
    IN [i \in 1..Len(found) |->
           UpdateState(found[i], SR_CREATED, own.timestamp + 3)]

\* The replicator brings a replica that is not the leader the rows of the
\* leader's db: the own range in SHARDING state, the first k shard ranges,
\* and Scan-Done once they are all there.
Replicate ==
    /\ ~IsLeader
    /\ db_state \in {UNSHARDED, SHARDING}
    /\ IsRoot \/ own.state = SR_SHARDING
    /\ \E k \in 1..Len(PeerRanges) :
         /\ Cardinality(ranges) < k
         /\ External([MergeShardRanges(World,
                          <<UpdateState(own, SR_SHARDING, own.timestamp + 1)>>
                          \o SubSeq(PeerRanges, 1, k))
                      EXCEPT !.scan_done = @ \/ k = Len(PeerRanges)])

\* The root PUTs a shard its own range in SHARDING state (_process_broker
\* of a SHARDED root, for each range it has marked SHARDING).
RootPutsSharding ==
    /\ ~IsRoot
    /\ db_state = UNSHARDED /\ own.state = SR_ACTIVE /\ ranges = {}
    /\ External(MergeShardRanges(World,
                    <<UpdateState(own, SR_SHARDING, Now(World))>>))

\* The root PUTs a shard it has chosen as donor its own range in SHRINKING
\* state and the expanded acceptor, with Scan-Done and the epoch
\* (_find_shrinks).
RootPutsShrink ==
    /\ ~IsRoot
    /\ db_state = UNSHARDED /\ own.state = SR_ACTIVE /\ ranges = {}
    /\ own.upper # MaxBound
    /\ LET t == Now(World) IN
       External([MergeShardRanges(World,
                    <<UpdateState(own, SR_SHRINKING, t),
                      ShardRange(SiblingName(1), t, own.lower, MaxBound,
                                 SR_ACTIVE, 1 + own.object_count)>>)
                 EXCEPT !.scan_done = TRUE, !.epoch = t])

\* A shard reports its usage to the sharded root: the lowest active shard
\* has no objects left, or the highest has as many as make it a sharding
\* candidate.
ActiveRanges == {r \in ranges : ~r.deleted /\ r.state = SR_ACTIVE}

ShardReports ==
    /\ IsRoot /\ db_state = SHARDED
    /\ hist.reports < MaxReports
    /\ \E r \in ActiveRanges : \E c \in {0, conf.shard_container_size} :
         /\ r.object_count # c
         /\ c = 0 => \A q \in ActiveRanges : q.lower >= r.lower
         /\ c # 0 => \A q \in ActiveRanges : q.lower <= r.lower
         /\ External([MergeShardRanges(World, <<UpdateMeta(r, c, Now(World))>>)
                      EXCEPT !.hist.reports = @ + 1])

\* A donor that has cleaved into its acceptor reports to the root its own
\* range deleted and the acceptor expanded over the donor's namespace.
DonorReports ==
    /\ IsRoot /\ db_state = SHARDED
    /\ \E d \in ranges :
         /\ ~d.deleted /\ d.state = SR_SHRINKING
         /\ LET gone == CopyDeleted(d, Now(World), SR_SHARDED)
                accs == {a \in ranges : ~a.deleted /\ a.lower = d.upper
                                        /\ a.state = SR_EXPANDING}
            IN External(MergeShardRanges(World,
                   <<gone>> \o
                   SortRanges({[a EXCEPT !.timestamp = d.state_timestamp,
                                         !.lower = d.lower,
                                         !.state = SR_ACTIVE,
                                         !.object_count = @ + d.object_count]
                               : a \in accs})))

\* -------------------------------------------------------------------- Init

ContainerSizes == {2}

\* A leader with every batch size, the two kinds of replica that are not
\* the leader (the scanner batch size means nothing to them), and a leader
\* whose broker is marked deleted while it still holds object rows.
Confs ==
    [is_root : BOOLEAN, node_index : {0}, auto_shard : {TRUE},
     shard_container_size : ContainerSizes,
     scanner_batch_size : 1..MaxBatch, shard_batch_size : 1..MaxBatch,
     db_deleted : {FALSE}, tombstones : {{}}]
    \cup
    {c \in [is_root : BOOLEAN, node_index : {0, 1}, auto_shard : BOOLEAN,
            shard_container_size : ContainerSizes,
            scanner_batch_size : {1}, shard_batch_size : 1..MaxBatch,
            db_deleted : {FALSE}, tombstones : {{}}] :
        ~(c.node_index = 0 /\ c.auto_shard) /\ (c.node_index = 0 \/ c.auto_shard)}
    \cup
    [is_root : BOOLEAN, node_index : {0}, auto_shard : {TRUE},
     shard_container_size : ContainerSizes,
     scanner_batch_size : {1}, shard_batch_size : {1},
     db_deleted : {TRUE}, tombstones : {{}}]

\* The own range of a root spans the namespace; that of a shard ends at the
\* last name but one, and the sibling of RootView owns the rest.
InitOwn(is_root) ==
    IF is_root THEN ShardRange(OwnName, 1, MinBound, MaxBound, SR_ACTIVE, 0)
    ELSE ShardRange(OwnName, 1, MinBound, 2 * (MaxName - 1), SR_ACTIVE,
                    MaxName - 1)

Init ==
    /\ conf \in Confs
    /\ db_state = UNSHARDED
    /\ own = InitOwn(conf.is_root)
    /\ ranges = {}
    /\ scan_done = FALSE
    /\ epoch = 0
    /\ ctx = [cursor |-> NoCursor, done |-> FALSE]
    /\ objects = Names
    /\ shards = <<>>
    /\ sent = <<>>
    /\ driver = NoDriver
    /\ call = NoCall
    /\ hist = [[HistReset([once |-> {}, twice |-> {}, killed |-> FALSE,
                         reports |-> 0, runs |-> 0, cycle |-> FALSE,
                         scanned |-> FALSE, found |-> 0,
                         scan_complete |-> FALSE])
               EXCEPT !.runs = 0] EXCEPT !.cycle = FALSE]

Next ==
    \/ ProcessBroker
    \/ Replicate
    \/ RootPutsSharding
    \/ RootPutsShrink
    \/ ShardReports
    \/ DonorReports

Spec == Init /\ [][Next]_vars

\* -------------------------------------------------------------- properties

LiveRanges == {r \in ranges : ~r.deleted}
Creates == {i \in 1..Len(sent) : sent[i].headers.kind = "create"}
StateOf(name) == (CHOOSE r \in ranges : r.name = name).state

\* The upper bound a persisted cursor names: nothing before the first batch
\* is persisted, MAX for the '' that str() makes of the unbounded bound.
CursorBound(c) == IF c.cursor = NoCursor THEN MinBound ELSE ToUpper(c.cursor)

C2_CompletesOnlyWhenCleaved ==
    hist.completed =>
        /\ scan_done
        /\ \A r \in LiveRanges : r.state \notin {SR_FOUND, SR_CREATED}
        /\ ctx.done /\ CursorBound(ctx) >= own.upper

\* The ranges tile (lower, upper]: they chain from lower to upper, each
\* starting where the one before ended.
RECURSIVE TilesFrom(_, _, _)
TilesFrom(S, lower, upper) ==
    IF S = {} THEN lower = upper
    ELSE \E r \in S : /\ r.lower = lower /\ r.upper > lower
                      /\ TilesFrom(S \ {r}, r.upper, upper)

AllCleaved ==
    /\ scan_done /\ ctx.done
    /\ \A r \in LiveRanges : r.state \notin {SR_FOUND, SR_CREATED}

ClaimedMoves ==
    {<<SR_FOUND, SR_CREATED>>, <<SR_CREATED, SR_CLEAVED>>,
     <<SR_CREATED, SR_ACTIVE>>, <<SR_CLEAVED, SR_ACTIVE>>,
     <<SR_ACTIVE, SR_SHARDING>>, <<SR_SHARDING, SR_SHARDED>>,
     <<SR_ACTIVE, SR_SHRINKING>>, <<SR_ACTIVE, SR_EXPANDING>>,
     <<SR_EXPANDING, SR_ACTIVE>>}

\* C4 (as claimed): every change of state a cycle stores is one of the
\* claimed ones, and no deleted row is stored undeleted.
C4_ClaimedMovesOnly == hist.moves \subseteq ClaimedMoves /\ ~hist.undeleted

\* C4 (amended): every change of state a cycle stores is one of the claimed
\* ones, or SHRINKING->SHARDED (a donor's own range once it has cleaved
\* into its acceptor), or SHARDED->EXPANDING (the own range of a sharded
\* root that accepts its last shard); no deleted row is stored undeleted.
C4_Moves ==
    /\ hist.moves \subseteq
           ClaimedMoves \cup {<<SR_SHRINKING, SR_SHARDED>>,
                              <<SR_SHARDED, SR_EXPANDING>>}
    /\ ~hist.undeleted

\* C4 witness: a cycle stored a donor's own range SHARDED and deleted.
C4_Witness ==
    /\ <<SR_SHRINKING, SR_SHARDED>> \in hist.moves
    /\ own.deleted /\ own.state = SR_SHARDED

\* What the broker stores: db state, shard ranges, cleave context, sysmeta
\* and object rows.
Stored == <<db_state, own, ranges, scan_done, epoch, ctx, objects>>

C6_LinearCreation ==
    /\ \A i \in Creates :
         /\ sent[i].ok <=> StateOf(sent[i].to) # SR_FOUND
         /\ ~sent[i].ok => \A j \in Creates : j <= i
    /\ \A f \in LiveRanges : \A r \in LiveRanges :
         (f.state = SR_FOUND /\ r.name[1] = 1
              /\ r.state \in {SR_CREATED, SR_CLEAVED, SR_ACTIVE})
           => r.lower <= f.lower

\* C6 witness: the second creation of a cycle failed, with a range created
\* below it and a range still FOUND above it.
C6_Witness ==
    \E i \in Creates :
        /\ i > 1 /\ ~sent[i].ok
        /\ \E f \in LiveRanges : f.state = SR_FOUND /\ f.name # sent[i].to

\* C7 (as claimed): a creation where exactly one of the three replica PUTs
\* fails returns false and leaves the range FOUND.
C7_OneFailureKeepsFound ==
    \A i \in Creates :
        (sent[i].puts = 3 /\ sent[i].succeeded = 2)
          => ~sent[i].ok /\ StateOf(sent[i].to) = SR_FOUND

\* C7 (amended): a creation where at least two of the three replica PUTs
\* fail returns false and leaves the range FOUND at the end of the cycle;
\* where exactly one fails it returns true and the range leaves FOUND.
C7_TwoFailuresKeepFound ==
    \A i \in Creates :
        /\ (sent[i].puts = 3 /\ sent[i].succeeded <= 1)
             => ~sent[i].ok /\ StateOf(sent[i].to) = SR_FOUND
        /\ (sent[i].puts = 3 /\ sent[i].succeeded = 2)
             => sent[i].ok /\ StateOf(sent[i].to) # SR_FOUND

\* C7 witness: a creation with one PUT of three succeeding, its range FOUND.
C7_Witness ==
    \E i \in Creates :
        /\ sent[i].puts = 3 /\ sent[i].succeeded = 1
        /\ StateOf(sent[i].to) = SR_FOUND

Covered(r) == ctx.done \/ (ctx.cursor # NoCursor /\ r.upper <= ctx.cursor)
FirstRange(name) ==
    \E r \in LiveRanges : r.name = name /\ r.lower = own.lower

\* C9 (as claimed): after a kill that followed the cleaving of the first
\* range alone, the persisted cursor is that range's upper bound; and no
\* range is cleaved twice for a kill.
C9_KillKeepsFirstRange ==
    /\ (hist.stop = "kill" /\ Len(hist.cleft) = 1 /\ FirstRange(hist.cleft[1])
           /\ Cardinality(LiveRanges) = MaxName)
         => \E r \in LiveRanges :
                r.name = hist.cleft[1] /\ ctx.cursor = Str(r.upper)
    /\ hist.killed => hist.twice = {}

\* C9 (amended): a kill persists nothing of the batch it interrupts, so the
\* cursor stays at the upper bound of the last batch that was persisted;
\* and no cycle, before or after a kill, cleaves a range that the persisted
\* context covers.
C9_ResumeAbovePersisted ==
    [][/\ hist'.stop = "kill" => ctx' = ctx
       /\ \A r \in ranges :
            Covered(r) => r.name \notin SeqToSet(hist'.cleft)]_vars

\* C9 witness: with batches of one, the process was killed in the batch of
\* a later range, the cleaving finished, and no range was cleaved twice.
C9_Witness ==
    /\ hist.killed /\ ctx.done /\ hist.twice = {}
    /\ IsRoot /\ Cardinality(hist.once) = MaxName

\* C10: a cycle on a node that is not index 0 with auto_shard scans nothing,
\* creates nothing, picks no pair to shrink, adds no shard range, and moves
\* no range into CREATED, SHRINKING, EXPANDING or SHARDING.
C10_LeaderOnly ==
    [][(hist'.cycle /\ ~(conf.node_index = 0 /\ conf.auto_shard)) =>
          /\ ~hist'.scanned /\ hist'.found = 0 /\ hist'.created = 0
          /\ hist'.pairs = 0
          /\ \A i \in 1..Len(sent') : sent'[i].headers.kind = "none"
          /\ \A q \in ranges' \cup {own'} :
               \E r \in ranges \cup {own} :
                  /\ r.name = q.name
                  /\ q.state \in {SR_CREATED, SR_SHRINKING, SR_EXPANDING,
                                  SR_SHARDING}
                       => r.state = q.state]_vars

\* C10 witness: a cycle on a replica of a shard that is not the leader swept
\* a misplaced object, cleaved, and reported to the root.
C10_Witness ==
    /\ ~(conf.node_index = 0 /\ conf.auto_shard) /\ ~IsRoot
    /\ hist.cycle /\ hist.placed # {} /\ hist.cleft # <<>>
    /\ \E i \in 1..Len(sent) : sent[i].to = RootName

\* The rows of the broker that lie outside its own namespace and inside a
\* shard range, other than its own, that the root lists.
MisplacedRows ==
    {n \in objects :
        /\ ~InRange(n, own.lower, own.upper)
        /\ \E d \in SeqToSet(RootView) :
              d.name # OwnName /\ InRange(n, d.lower, d.upper)}

\* C11 (as claimed): a cycle on a broker that is marked deleted has swept the
\* misplaced rows to their shards (none is left in the broker), and has
\* done no state work: the db state is the one it started in, nothing was
\* scanned, created or cleaved and nothing was sent.
C11_DeletedStillSwept ==
    (hist.cycle /\ IsDeleted /\ ~IsRoot) =>
        /\ MisplacedRows = {}
        /\ db_state = hist.started /\ ~hist.scanned /\ hist.created = 0
        /\ hist.cleft = <<>> /\ sent = <<>>

\* ------------------------------------------- the sweep and the copy alone

\* The second specification applies _misplaced_objects, and the copy loop of
\* _cleave, once to a broker drawn from every state a broker can be found
\* in between two cycles: any rows in the object table, any own range, the
\* db states with the own states and cursors that go with them, and any
\* name-ordered list of disjoint shard ranges as the destinations, gaps
\* included.

BoundPoints == {MinBound} \cup Names \cup {MaxBound}

\* The name-ordered lists of disjoint (lower, upper] intervals at or above lo.
RECURSIVE DestListsFrom(_)
DestListsFrom(lo) ==
    {<<>>} \cup
    UNION {{<<[lower |-> p[1], upper |-> p[2]]>> \o rest :
              rest \in DestListsFrom(p[2])} :
           p \in {q \in BoundPoints \X BoundPoints :
                     lo <= q[1] /\ q[1] < q[2]}}
DestLists == DestListsFrom(MinBound)

\* The rows the root holds for a list of intervals; when the root lists the
\* broker itself, it is the row that includes the broker's own range.
NamedDests(list, me, own_listed) ==
    [i \in 1..Len(list) |->
        ShardRange(IF own_listed /\ Includes(list[i], me)
                   THEN OwnName ELSE SiblingName(i),
                   1, list[i].lower, list[i].upper, SR_ACTIVE, 0)]

\* The own states a db state goes with.
SweepOwnStates(is_root, dbs) ==
    IF dbs = UNSHARDED
    THEN IF is_root THEN {SR_ACTIVE}
         ELSE {SR_ACTIVE, SR_EXPANDING, SR_SHRINKING}
    ELSE IF dbs = SHARDING THEN {SR_SHARDING} ELSE {SR_SHARDED}

\* The cursors a db state goes with: none stored, or the upper bound,
\* through str(), of a range cleaved so far.
SweepCursors(dbs, me) ==
    IF dbs # SHARDING THEN {NoCursor}
    ELSE {NoCursor} \cup
         {Str(u) : u \in {b \in BoundPoints : me.lower < b /\ b <= me.upper}}

SweepConfs ==
    [is_root : BOOLEAN, node_index : {1}, auto_shard : {FALSE},
     shard_container_size : ContainerSizes,
     scanner_batch_size : {1}, shard_batch_size : {1},
     db_deleted : BOOLEAN, tombstones : {{}, {2 * (MaxName - 1)}}]

SweepInit ==
    /\ conf \in SweepConfs
    /\ db_state \in {UNSHARDED, SHARDING, SHARDED}
    /\ own \in {ShardRange(OwnName, 1, p[1], p[2], s, 0) :
                   p \in {q \in BoundPoints \X BoundPoints : q[1] < q[2]},
                   s \in SweepOwnStates(conf.is_root, db_state)}
    /\ conf.is_root => own.lower = MinBound /\ own.upper = MaxBound
    /\ ranges \in IF conf.is_root
                  THEN {SeqToSet(NamedDests(l, own, FALSE)) : l \in DestLists}
                  ELSE {{}}
    /\ scan_done = FALSE
    /\ epoch = 0
    /\ ctx \in [cursor : SweepCursors(db_state, own), done : {FALSE}]
    /\ conf.tombstones # {} =>
          db_state = SHARDING /\ ctx.cursor = NoCursor /\ ~conf.db_deleted
    /\ objects \in SUBSET Names
    /\ shards = <<>>
    /\ sent = <<>>
    /\ driver = NoDriver
    /\ call = NoCall
    /\ hist = [[HistReset([once |-> {}, twice |-> {}, killed |-> FALSE,
                         reports |-> 0, runs |-> 0, cycle |-> FALSE,
                         scanned |-> FALSE, found |-> 0,
                         scan_complete |-> FALSE])
               EXCEPT !.runs = 0] EXCEPT !.cycle = FALSE]

\* One call of _misplaced_objects; a broker that is not the root gets the
\* list of the root.
SweepPass ==
    /\ ~hist.cycle
    /\ \E l \in (IF IsRoot THEN {<<>>} ELSE DestLists),
          own_listed \in (IF IsRoot THEN {FALSE} ELSE BOOLEAN) :
          Install(MisplacedObjects([World EXCEPT !.hist = HistReset(@)],
                                   NamedDests(l, own, own_listed)))

\* The copy loop of _cleave for one shard range of a sharding broker whose
\* rows are spread over its retiring db and a fresh db.
CleaveCopy ==
    /\ ~hist.cycle /\ db_state = SHARDING /\ ~IsDeleted
    /\ ctx.cursor = NoCursor
    /\ \E fresh \in {S \in SUBSET Names : Cardinality(S) <= 1},
          iv \in {q \in BoundPoints \X BoundPoints :
                     own.lower <= q[1] /\ q[1] < q[2] /\ q[2] <= own.upper} :
          LET sr == ShardRange(SiblingName(1), 1, iv[1], iv[2], SR_CREATED, 0)
              brokers == <<objects, fresh>>
          IN Install([World EXCEPT
                 !.shards = (sr.name :>
                     [ShardBroker(World, sr.name) EXCEPT
                         !.objects = @ \cup CleaveObjects(brokers, sr)]) @@ @,
                 !.hist = [HistReset(@) EXCEPT !.sources = brokers,
                                               !.copied = sr,
                                               !.cleft = <<sr.name>>]])

SweepNext ==
    \/ SweepPass
    \/ CleaveCopy

SweepSpec == SweepInit /\ [][SweepNext]_vars

\* The rows the table held when the pass began, the destinations the pass
\* used, and the (row, destination) pairs it yielded.
RowsBefore == objects \cup hist.removed
DestsUsed == SeqToSet(hist.dests)
Yielded ==
    UNION {{<<n, hist.tuples[i].dest>> : n \in SeqToSet(hist.tuples[i].objs)} :
           i \in 1..Len(hist.tuples)}

\* A pass is successful when some query merged rows into a destination
\* (misplaced_items is true).
Successful == hist.swept /\ hist.placed # {}
Foreign == {d \in DestsUsed : d.name # OwnName}

\* C12 (as claimed): after a successful misplaced-objects pass on a broker
\* whose db state is SHARDED, the object table of the broker is empty.
C12_EmptyAfterSweep ==
    (Successful /\ db_state = SHARDED) => objects = {}

\* C12: after a successful misplaced-objects pass on a broker whose db state
\* is SHARDED, the object table holds no row that lies in a destination
\* shard range other than the broker's own container; it is empty when
\* those destinations cover the whole namespace.
C12_NoRowLeftInDest ==
    (Successful /\ db_state = SHARDED) =>
        /\ \A n \in objects :
              ~\E d \in Foreign : InRange(n, d.lower, d.upper)
        /\ TilesFrom(Foreign, MinBound, MaxBound) => objects = {}

\* A successful pass on a SHARDED broker that moved a row and kept another,
\* for which the list had no destination.
C12_Witness ==
    /\ Successful /\ db_state = SHARDED
    /\ objects # {}
    /\ TilesFrom(Foreign, MinBound, MaxBound) = FALSE
    /\ hist.removed # {}

Queried(n) ==
    \E i \in 1..Len(hist.queries) :
        InRange(n, hist.queries[i].lower, hist.queries[i].upper)

\* C13 (as claimed): a pass removes from the source only rows that it
\* merged into a destination broker: every row for which no destination was
\* found, every row whose destination is the own container and every row
\* outside the queried namespaces is still in the source after the pass.
C13_RemovesOnlyMerged ==
    hist.swept =>
        /\ hist.removed \subseteq hist.placed
        /\ \A y \in Yielded :
              y[2].name \in {NoneName, OwnName} => y[1] \in objects
        /\ \A n \in RowsBefore : ~Queried(n) => n \in objects

\* The places (tuple, position) at which the pass yielded a row.
YieldPlaces ==
    {p \in (1..Len(hist.tuples)) \X (1..MaxName) :
        p[2] <= Len(hist.tuples[p[1]].objs)}

\* C14 (as claimed): for every name-ordered list of destination shard
\* ranges, gaps included, every object yielded with a destination d lies in
\* (d.lower, d.upper], every object that lies in no destination range is
\* yielded with no destination, and no object is yielded twice.
C14_YieldedInsideDest ==
    hist.swept =>
        /\ \A y \in Yielded :
              y[2].name # NoneName => InRange(y[1], y[2].lower, y[2].upper)
        /\ \A y \in Yielded :
              (~\E d \in DestsUsed : InRange(y[1], d.lower, d.upper))
                  => y[2].name = NoneName
        /\ \A p, q \in YieldPlaces :
              hist.tuples[p[1]].objs[p[2]] = hist.tuples[q[1]].objs[q[2]]
                  => p = q

\* C15 (as claimed): bounds are lower-inclusive and upper-exclusive in the
\* mover: an object named by the lower bound of a destination range is
\* placed in that range, and an object named by its upper bound is placed
\* in the following range, not in it.
C15_LowerInclusive ==
    hist.swept =>
        \A y \in Yielded : \A d \in DestsUsed :
            /\ y[1] = d.lower => y[2] = d
            /\ y[1] = d.upper => y[2] # d

\* C15: bounds are lower-exclusive and upper-inclusive in the mover: an
\* object named by the upper bound of a destination range is placed in that
\* range (merged into it unless it is the own container), and an object
\* named by the lower bound of a range that starts where the range before
\* it ends is placed in the range before it, not in it.
C15_UpperInclusive ==
    hist.swept =>
        \A y \in Yielded : \A d \in DestsUsed :
            /\ y[1] = d.upper =>
                  /\ y[2] = d
                  /\ d.name # OwnName => <<y[1], d.name>> \in hist.merged
            /\ (y[1] = d.lower /\ \E e \in DestsUsed : e.upper = d.lower) =>
                  /\ y[2] # d
                  /\ y[2].upper = d.lower

\* A pass that placed the object named by the bound two destinations share.
C15_Witness ==
    /\ hist.swept
    /\ \E y \in Yielded : \E d, e \in DestsUsed :
          /\ y[1] = d.upper /\ e.lower = d.upper
          /\ y[2] = d /\ <<y[1], d.name>> \in hist.merged

\* The namespaces of the claim, as (lower, upper) pairs of bounds; a cursor
\* is set when one is stored and it is not the empty string.
Above(bound) ==
    IF bound # MaxBound THEN <<[lower |-> bound, upper |-> MaxBound]>>
    ELSE <<>>
Below(bound) ==
    IF bound # MinBound THEN <<[lower |-> MinBound, upper |-> bound]>>
    ELSE <<>>
ClaimedQueries ==
    IF db_state = SHARDED THEN <<[lower |-> MinBound, upper |-> MaxBound]>>
    ELSE IF db_state = SHARDING /\ ctx.cursor \notin {NoCursor, EmptyStr}
    THEN <<[lower |-> MinBound, upper |-> ctx.cursor]>> \o Above(own.upper)
    ELSE Below(own.lower) \o Above(own.upper)

\* C16: the namespaces a sweep searches are the whole table when the db is
\* SHARDED; ('', cursor] and, if own has an upper, (own.upper, ''] when the
\* db is SHARDING and a cursor is set; otherwise ('', own.lower] and
\* (own.upper, ''], each only when that bound is not empty. Every row the
\* sweep yields, merges or removes a destination for was found in one of
\* them, and with no namespace nothing is moved.
C16_Namespaces ==
    hist.swept =>
        /\ hist.queries = ClaimedQueries
        /\ \A y \in Yielded : Queried(y[1])
        /\ hist.placed \subseteq {n \in RowsBefore : Queried(n)}
        /\ hist.queries = <<>> =>
              /\ hist.tuples = <<>> /\ hist.placed = {} /\ hist.removed = {}
              /\ shards = <<>>

\* A sweep of a SHARDING broker with a cursor and an upper bound, which
\* searched two namespaces and moved a row out of each.
C16_Witness ==
    /\ hist.swept /\ db_state = SHARDING /\ Len(hist.queries) = 2
    /\ \E m, n \in hist.placed :
          /\ InRange(m, hist.queries[1].lower, hist.queries[1].upper)
          /\ InRange(n, hist.queries[2].lower, hist.queries[2].upper)

C18_FetchFailureIsSoft ==
    hist.fetch_failed =>
        /\ hist.stop # "raise"
        /\ hist.placed = {} /\ hist.removed = {}
        /\ \E i \in 1..Len(sent) : sent[i].to = RootName

\* The range for which the last cycle found no device, and the names
\* ranges_todo lists on the next call of _cleave.
BlockedRange == CHOOSE r \in ranges : r.name = hist.blocked
TodoNames == {r.name : r \in SeqToSet(RangesTodo(World))}

\* C19: when no handoff device is found for a range of a cleave batch,
\* _cleave returns false, the persisted cursor stays where it was, below the
\* upper bound of that range, and the range is in ranges_todo again.
C19_DeviceUnavailable ==
    [][hist'.stop = "dev" =>
          /\ hist'.cleave_ret = "false"
          /\ ctx' = ctx
          /\ CursorBound(ctx') < BlockedRange'.upper
          /\ hist'.blocked \in TodoNames'
          /\ ~hist'.completed /\ db_state' = SHARDING]_vars

\* No device for the second range of a batch whose first range was cleaved.
C19_Witness ==
    /\ hist.stop = "dev" /\ Len(hist.cleft) = 1
    /\ hist.blocked \in TodoNames /\ hist.blocked # hist.cleft[1]
    /\ hist.cleft[1] \in TodoNames

\* The rows of a source broker that lie in the range copied.
RowsIn(src, sr) == {n \in src : InRange(n, sr.lower, sr.upper)}

\* C20: after a range has been cleaved, its shard broker holds every row,
\* tombstones included, of every source broker whose name lies in the range,
\* and for every page size the pages of yield_objects hold each of those
\* rows once, in name order, every page but the last being full (also when
\* the rows fill the pages exactly).
C20_CopiesEveryRow ==
    hist.sources # <<>> =>
        /\ shards[hist.copied.name].objects =
              UNION {RowsIn(hist.sources[i], hist.copied) :
                        i \in 1..Len(hist.sources)}
        /\ \A i \in 1..Len(hist.sources) : \A limit \in 1..(PageSize + 1) :
              LET pages == ListPages(limit, hist.sources[i],
                                     hist.copied.lower, hist.copied.upper)
              IN /\ Flatten(pages) =
                       SortNames(RowsIn(hist.sources[i], hist.copied))
                 /\ \A k \in 1..(Len(pages) - 1) : Len(pages[k]) = limit
                 /\ Len(pages[Len(pages)]) < limit

\* A range copied from two source brokers, the first of which holds a
\* tombstone in the range and as many rows in it as a page takes.
C20_Witness ==
    /\ hist.sources # <<>>
    /\ conf.tombstones \cap RowsIn(hist.sources[1], hist.copied) # {}
    /\ Cardinality(RowsIn(hist.sources[1], hist.copied)) = PageSize
    /\ RowsIn(hist.sources[2], hist.copied) \ hist.sources[1] # {}
    /\ conf.tombstones \subseteq shards[hist.copied.name].objects

\* ------------------------------------------------ the shrink finder alone

\* The third specification applies _find_shrinks twice to a sharded root
\* drawn from every list of up to MaxShards shard ranges that tile the
\* namespace, each range in any of the states a listed range can have and
\* with any object count up to MaxCount, for each container size.

MaxShards == 3
MaxCount == 3
ShrinkSizes == {4, 8}

\* The lists of bounds MinBound = b[1] < ... < b[n + 1] = MaxBound of n ranges
Tilings ==
    UNION {{b \in [1..(n + 1) -> BoundPoints] :
              /\ b[1] = MinBound /\ b[n + 1] = MaxBound
              /\ \A i \in 1..n : b[i] < b[i + 1]} : n \in 1..MaxShards}

ShrinkStates == {SR_CREATED, SR_ACTIVE, SR_SHRINKING, SR_EXPANDING}

ShrinkInit ==
    /\ conf \in [is_root : {TRUE}, node_index : {0}, auto_shard : {TRUE},
                  shard_container_size : ShrinkSizes,
                  scanner_batch_size : {1}, shard_batch_size : {1},
                  db_deleted : {FALSE}, tombstones : {{}}]
    /\ db_state = SHARDED
    /\ own = ShardRange(OwnName, 1, MinBound, MaxBound, SR_SHARDED, 0)
    /\ \E b \in Tilings :
          \E st \in [1..(Len(b) - 1) -> ShrinkStates],
             cnt \in [1..(Len(b) - 1) -> 0..MaxCount] :
             ranges = {ShardRange(SiblingName(i), 1, b[i], b[i + 1],
                                  st[i], cnt[i]) : i \in 1..(Len(b) - 1)}
    /\ scan_done = TRUE
    /\ epoch = 1
    /\ ctx = [cursor |-> EmptyStr, done |-> TRUE]
    /\ objects = {}
    /\ shards = <<>>
    /\ sent = <<>>
    /\ driver = NoDriver
    /\ call = NoCall
    /\ hist = [[HistReset([once |-> {}, twice |-> {}, killed |-> FALSE,
                         reports |-> 0, runs |-> 0, cycle |-> FALSE,
                         scanned |-> FALSE, found |-> 0,
                         scan_complete |-> FALSE])
               EXCEPT !.runs = 0] EXCEPT !.cycle = FALSE]

\* One call of _find_shrinks: the first on the root drawn, the second on the
\* root as the first left it, with nothing changed in between. call keeps
\* what the root stored before the call and what the first call selected
\* and sent.
ShrinkRun(w) ==
    /\ db_state' = w.db_state
    /\ own' = w.own
    /\ ranges' = w.ranges
    /\ scan_done' = w.scan_done
    /\ epoch' = w.epoch
    /\ ctx' = w.ctx
    /\ objects' = w.objects
    /\ shards' = w.shards
    /\ sent' = w.sent
    /\ hist' = w.hist
    /\ call' = [op |-> "_find_shrinks",
                run |-> IF call.op = "none" THEN 1 ELSE 2,
                ranges |-> ranges, own |-> own,
                first |-> IF call.op = "none"
                          THEN [pairs |-> w.hist.merge_pairs, sent |-> w.sent]
                          ELSE call.first]
    /\ UNCHANGED <<conf, driver>>

ShrinkPass ==
    /\ IF call.op = "none" THEN TRUE ELSE call.run = 1
    /\ ShrinkRun(FindShrinks([World EXCEPT !.hist = HistReset(@)]))

ShrinkNext == ShrinkPass

ShrinkSpec == ShrinkInit /\ [][ShrinkNext]_vars

\* The adjacent pair at place i of the ranges paired is a merge pair.
Selected(i) ==
    \E k \in 1..Len(hist.merge_pairs) :
        /\ hist.merge_pairs[k].donor = hist.candidates[i]
        /\ hist.merge_pairs[k].acceptor = hist.candidates[i + 1]

\* C21: the shrink finder selects an adjacent pair (donor, acceptor) if and
\* only if the donor is not the acceptor of an earlier pair of the call, the
\* acceptor is ACTIVE or EXPANDING or the root's own range, the donor is
\* ACTIVE or SHRINKING, and the donor is SHRINKING or its object count is
\* below shrink_size and the count of the two below merge_size; it selects
\* nothing else.
C21_PairSelection ==
    hist.cycle =>
        /\ \A i \in 1..(Len(hist.candidates) - 1) :
              LET donor == hist.candidates[i]
                  acceptor == hist.candidates[i + 1]
              IN Selected(i) <=>
                  /\ ~(i > 1 /\ Selected(i - 1))
                  /\ acceptor.state \in {SR_ACTIVE, SR_EXPANDING}
                        \/ acceptor.name = OwnName
                  /\ donor.state \in {SR_ACTIVE, SR_SHRINKING}
                  /\ \/ donor.state = SR_SHRINKING
                     \/ /\ 100 * donor.object_count
                              < ShrinkPoint * conf.shard_container_size
                        /\ 100 * (donor.object_count + acceptor.object_count)
                              < MergePoint * conf.shard_container_size
        /\ \A k \in 1..Len(hist.merge_pairs) :
              \E i \in 1..(Len(hist.candidates) - 1) :
                  /\ hist.merge_pairs[k].donor = hist.candidates[i]
                  /\ hist.merge_pairs[k].acceptor = hist.candidates[i + 1]

\* A call on three shards of which the first two are a merge pair, so that
\* the second, small enough to be a donor itself, is passed over.
C21_Witness ==
    /\ hist.cycle /\ Len(hist.candidates) = 3
    /\ Selected(1) /\ ~Selected(2)
    /\ hist.candidates[2].state = SR_ACTIVE
    /\ hist.candidates[3].state = SR_ACTIVE
    /\ 100 * hist.candidates[2].object_count
          < ShrinkPoint * conf.shard_container_size
    /\ 100 * (hist.candidates[2].object_count + hist.candidates[3].object_count)
          < MergePoint * conf.shard_container_size

\* A root with two ACTIVE shards of which the first holds at least
\* shrink_size objects and the second fewer, the two together fewer than
\* merge_size.
LargeThenSmall ==
    /\ Len(hist.candidates) = 2
    /\ \A i \in 1..2 : /\ hist.candidates[i].state = SR_ACTIVE
                        /\ hist.candidates[i].name # OwnName
    /\ 100 * hist.candidates[1].object_count
          >= ShrinkPoint * conf.shard_container_size
    /\ 100 * hist.candidates[2].object_count
          < ShrinkPoint * conf.shard_container_size
    /\ 100 * (hist.candidates[1].object_count + hist.candidates[2].object_count)
          < MergePoint * conf.shard_container_size

\* C22 (as claimed): on a sharded root with two ACTIVE shards, the first
\* large and the second small, one run of the shrink finder selects the
\* second shard as donor and the first as acceptor.
C22_SecondIntoFirst ==
    (hist.cycle /\ LargeThenSmall) =>
        \E k \in 1..Len(hist.merge_pairs) :
            /\ hist.merge_pairs[k].donor = hist.candidates[2]
            /\ hist.merge_pairs[k].acceptor = hist.candidates[1]

\* C22: on a sharded root with two ACTIVE shards, the first large and the
\* second small, one run of the shrink finder selects no pair: the only
\* pair it considers has the first shard as donor and the second as
\* acceptor, and the first is too large to be a donor. Both shards stay
\* ACTIVE and nothing is sent.
C22_NoPairSelected ==
    (hist.cycle /\ LargeThenSmall) =>
        /\ hist.merge_pairs = <<>>
        /\ \A r \in ranges : r.state = SR_ACTIVE /\ ~r.deleted
        /\ sent = <<>>

\* After a run on two ACTIVE shards, the first large and the second small.
C22_Witness ==
    /\ hist.cycle /\ LargeThenSmall
    /\ hist.candidates[2].object_count > 0
    /\ Cardinality(ranges) = 2

\* The root held one shard range when the finder ran, and the finder paired
\* it, as donor, with the own range of the root.
LastShard ==
    /\ hist.cycle /\ Cardinality(ranges) = 1
    /\ Len(hist.candidates) = 2
    /\ hist.candidates[1].name # OwnName /\ hist.candidates[2].name = OwnName

\* The PUT that tells the donor to cleave into the root: its own range in
\* SHRINKING state and the root's own range, ACTIVE, with Scan-Done and the
\* epoch.
DonorToldToCleave ==
    \E i \in 1..Len(sent) :
        /\ sent[i].to = hist.candidates[1].name
        /\ sent[i].headers.scan_done
        /\ Len(sent[i].rows) = 2
        /\ sent[i].rows[1].name = sent[i].to
        /\ sent[i].rows[1].state = SR_SHRINKING
        /\ sent[i].rows[2].name = OwnName
        /\ sent[i].rows[2].state = SR_ACTIVE
        /\ sent[i].rows[2].lower = MinBound /\ sent[i].rows[2].upper = MaxBound

\* C23 (as claimed): when a sharded root holds one shard range, the finder
\* pairs it as donor with the root's own range as acceptor, an eligible
\* donor is told to cleave into the root, and the own range of the root as
\* stored afterwards is not EXPANDING.
C23_OwnNotLeftExpanding ==
    (hist.cycle /\ Cardinality(ranges) = 1) =>
        /\ LastShard
        /\ Selected(1) => DonorToldToCleave
        /\ own.state # SR_EXPANDING

\* C23: when a sharded root holds one shard range, the finder pairs it as
\* donor with the root's own range as acceptor; when the pair is eligible
\* the donor is stored SHRINKING and told to cleave into the root, and the
\* own range of the root is stored EXPANDING (the copy of it sent to the
\* donor is ACTIVE); when it is not, the own range stays as it was.
C23_OwnLeftExpanding ==
    (hist.cycle /\ Cardinality(ranges) = 1) =>
        /\ LastShard
        /\ Selected(1) =>
              /\ DonorToldToCleave
              /\ own.state = SR_EXPANDING
              /\ \A r \in ranges : r.state = SR_SHRINKING
              /\ Len(sent) = 1
        /\ ~Selected(1) =>
              /\ own.state = SR_SHARDED /\ sent = <<>>
              /\ \A r \in ranges : r = hist.candidates[1]

\* The last shard of a root, ACTIVE and empty, paired with the root's own
\* range and told to cleave into it.
C23_Witness ==
    /\ LastShard /\ Selected(1) /\ DonorToldToCleave
    /\ hist.candidates[1].state = SR_ACTIVE
    /\ own.state = SR_EXPANDING

C24_WitnessRoot ==
    /\ hist.cycle /\ hist.completed /\ IsRoot
    /\ ~own.deleted /\ own.state = SR_SHARDED
    /\ \E r \in ranges : r.state = SR_ACTIVE /\ ~r.deleted

\* The turns of the cleave loop of the cycle that were splits.
Splits == {i \in 1..Len(hist.turns) : ~hist.turns[i].shrinking}

\* The row of a range in its shard broker.
ShardRow(t) == {r \in t.shard.rows : r.name = t.sr.name}

\* C25: a split of a CREATED range gives the range the number of objects
\* seen in its shard broker and the state ACTIVE when the source is the root,
\* CLEAVED otherwise, in ranges_done and in the shard broker; a range that is
\* CLEAVED or ACTIVE keeps its state and its stats when cleaved again.
C25_SplitStats ==
    \A i \in Splits :
        LET t == hist.turns[i] IN
        /\ t.sr.state = SR_CREATED =>
              /\ t.done.object_count = Cardinality(Live(t.shard.objects))
              /\ t.done.state = (IF IsRoot THEN SR_ACTIVE ELSE SR_CLEAVED)
              /\ ShardRow(t) = {t.done}
              /\ hist.stop = "none" =>
                    \E r \in ranges :
                        /\ r.name = t.sr.name
                        /\ r.object_count = t.done.object_count
                        /\ r.state \in {t.done.state, SR_ACTIVE}
        /\ t.sr.state \in {SR_CLEAVED, SR_ACTIVE} =>
              /\ t.done = t.sr
              /\ hist.stop = "none" =>
                    \E r \in ranges :
                        /\ r.name = t.sr.name
                        /\ r.object_count = t.sr.object_count
                        /\ r.state \in {t.sr.state, SR_ACTIVE}

\* A root split a CREATED range whose shard broker held a row the range
\* was not found with, and the range is stored ACTIVE with the rows counted.
C25_Witness ==
    /\ hist.cycle /\ IsRoot /\ hist.stop = "none"
    /\ \E i \in Splits :
          /\ hist.turns[i].sr.state = SR_CREATED
          /\ hist.turns[i].done.state = SR_ACTIVE
          /\ hist.turns[i].done.object_count # hist.turns[i].sr.object_count
          /\ hist.turns[i].done.object_count > 0

\* A shard split a CREATED range, stored CLEAVED.
C25_WitnessShard ==
    /\ hist.cycle /\ ~IsRoot /\ hist.stop = "none"
    /\ \E i \in Splits :
          /\ hist.turns[i].sr.state = SR_CREATED
          /\ hist.turns[i].done.state = SR_CLEAVED

\* A range cleaved before is cleaved again as a split.
C25_WitnessAgain ==
    /\ hist.cycle /\ hist.stop = "none"
    /\ \E i \in Splits : hist.turns[i].sr.state \in {SR_CLEAVED, SR_ACTIVE}

\* The names of the stored shard ranges.
RangeNames(rs) == {r.name : r \in rs}

\* The scanner and Scan-Done in one cycle: in a cycle that calls the scanner
\* Scan-Done is true afterwards exactly when the call reported last_found; a
\* call that finds nothing and does not report last_found adds no shard
\* range and leaves Scan-Done false and the db SHARDING.
ScanDoneOnlyWhenLastFound ==
    (hist'.cycle /\ hist'.scanned) =>
        /\ scan_done' = hist'.scan_complete
        /\ (hist'.found = 0 /\ ~hist'.scan_complete) =>
              /\ RangeNames(ranges') = RangeNames(ranges)
              /\ ~scan_done'
              /\ db_state' = SHARDING

\* C27: Scan-Done is set by the scanner only in a call that reports
\* last_found; a call that finds nothing and does not report last_found
\* changes neither the stored shard ranges nor Scan-Done, and the next cycle
\* of the leader on the broker, still SHARDING, calls the scanner again.
C27_ScanRetried ==
    [][/\ ScanDoneOnlyWhenLastFound
       /\ (hist'.cycle /\ hist'.after_failed_scan) =>
            /\ db_state = SHARDING /\ IsLeader
            /\ hist'.scanned]_vars

\* The same with the cycles left out that an exception ends before the scan.
C27_ScanRetriedUnlessRaised ==
    [][/\ ScanDoneOnlyWhenLastFound
       /\ (hist'.cycle /\ hist'.after_failed_scan /\ hist'.stop # "raise") =>
            /\ db_state = SHARDING /\ IsLeader
            /\ hist'.scanned]_vars

\* The cycle after a scan that found nothing ends in an exception before
\* the scanner is called.
C27_RaisedBeforeScan ==
    /\ hist.cycle /\ hist.after_failed_scan /\ hist.stop = "raise"
    /\ ~hist.scanned /\ db_state = SHARDING /\ IsLeader /\ ~scan_done

\* The scanner is called again in the cycle after one in which it found
\* nothing, and this time finds the last range.
C27_Witness ==
    /\ hist.cycle /\ hist.after_failed_scan /\ hist.scanned
    /\ hist.found > 0 /\ hist.scan_complete /\ scan_done

\* A call of the scanner that finds nothing and does not report last_found.
C27_WitnessFailed ==
    /\ hist.cycle /\ hist.scanned /\ hist.found = 0 /\ ~hist.scan_complete
    /\ ~scan_done /\ ranges # {}

\* The broker holds a shard range; its own range is SHARDING or SHRINKING
\* when the state of the db is looked at (a leader root marks its own range
\* SHARDING first when it holds shard_container_size objects).
HoldsRanges == \E r \in ranges : ~r.deleted
OwnMarked ==
    \/ own.state \in {SR_SHARDING, SR_SHRINKING}
    \/ /\ IsLeader /\ IsRoot
       /\ Cardinality(Live(objects)) >= conf.shard_container_size

\* What a cycle does to an UNSHARDED or COLLAPSED db.
StateChange ==
    /\ (db_state' # db_state) <=> (HoldsRanges \/ OwnMarked)
    /\ db_state' # db_state => db_state' \in {SHARDING, SHARDED}
    /\ (epoch' # epoch \/ (scan_done /\ ~scan_done')) => ~HoldsRanges
    /\ (~HoldsRanges /\ OwnMarked) => epoch' # epoch /\ hist'.scanned = IsLeader
    /\ (HoldsRanges /\ scan_done) => scan_done'

\* C28: a broker whose db is UNSHARDED or COLLAPSED moves to SHARDING in a
\* cycle exactly when it holds a shard range or its own range is SHARDING or
\* SHRINKING; Scan-Done is reset and a new epoch set only when it holds no
\* shard range, so a donor given ranges with Scan-Done keeps Scan-Done.
C28_StartsSharding ==
    [][(hist'.cycle /\ ~IsDeleted /\ db_state \in {UNSHARDED, COLLAPSED})
          => StateChange]_vars

\* The same with the cycles left out that an exception ends before the
\* state of the db is looked at.
C28_StartsShardingUnlessRaised ==
    [][(hist'.cycle /\ ~IsDeleted /\ db_state \in {UNSHARDED, COLLAPSED}
          /\ hist'.stop # "raise") => StateChange]_vars

\* A cycle on an UNSHARDED shard that holds a shard range ends in an
\* exception and leaves the db UNSHARDED.
C28_RaisedBeforeStateChange ==
    /\ hist.cycle /\ hist.stop = "raise" /\ hist.started = UNSHARDED
    /\ db_state = UNSHARDED /\ ~IsDeleted /\ HoldsRanges

\* A donor given its acceptor with Scan-Done has moved to SHARDING and kept
\* Scan-Done and its epoch.
C28_Witness ==
    /\ hist.cycle /\ hist.started = UNSHARDED /\ db_state # UNSHARDED
    /\ ~hist.scanned /\ scan_done /\ HoldsRanges /\ ~IsRoot

\* The rows of the PUTs the cycle sent to the root.
RootReports ==
    {SeqToSet(sent[i].rows) : i \in {j \in 1..Len(sent) : sent[j].to = RootName}}

\* A cycle of a broker that is neither the root nor deleted, not cut short
\* by a kill of the process.
ShardCycle == hist.cycle /\ ~IsRoot /\ ~IsDeleted /\ hist.stop # "kill"

\* C29: in every cycle in which a broker that is neither the root nor
\* deleted is processed, it reports to the root its own shard range together
\* with all the other shard ranges it holds.
C29_ReportsEveryCycle ==
    ShardCycle => (ranges \cup {own}) \in RootReports

\* The same with the cycles left out that an exception ends, and with the
\* report of a broker whose own range is SHRINKING, which is that range
\* alone.
C29_ReportsUnlessRaised ==
    (ShardCycle /\ hist.stop # "raise") =>
        IF own.state = SR_SHRINKING THEN {own} \in RootReports
        ELSE (ranges \cup {own}) \in RootReports

\* A cycle of a shard that an exception ends: nothing is sent to the root.
C29_RaisedBeforeReport ==
    /\ ShardCycle /\ hist.stop = "raise"
    /\ RootReports = {}

\* A donor that could not cleave into its acceptor reports its own range
\* alone.
C29_ShrinkingReportsOwnOnly ==
    /\ ShardCycle /\ hist.stop = "dev"
    /\ own.state = SR_SHRINKING /\ ranges # {}
    /\ RootReports = {{own}}

\* ------------------------------------------------------ one call of _cleave
\*
\* A broker in SHARDING state that has not cleaved yet. When it splits, its
\* shard ranges tile its namespace and are CREATED, or CLEAVED or ACTIVE
\* where the replicator brought the rows of a replica that has cleaved them;
\* a shard broker may hold rows before the cleave. When it shrinks, it is a
\* shard whose one shard range is the acceptor, which includes its own range;
\* its own range is SHRINKING, or SHARDED and deleted when an earlier cleave
\* was cut short.

SplitRanges ==
    UNION {{[i \in 1..(Len(b) - 1) |->
                ShardRange(SiblingName(i), 1, b[i], b[i + 1], st[i], cnt)] :
              st \in [1..(Len(b) - 1) -> {SR_CREATED, SR_CLEAVED, SR_ACTIVE}],
              cnt \in 0..1} :
           b \in {c \in Tilings : Len(c) = 3}}

CleaveInit ==
    /\ conf \in [is_root : BOOLEAN, node_index : {0, 1}, auto_shard : {TRUE},
                  shard_container_size : ContainerSizes,
                  scanner_batch_size : {1}, shard_batch_size : 1..MaxBatch,
                  db_deleted : {FALSE}, tombstones : {{}}]
    /\ db_state = SHARDING
    /\ \/ /\ own = ShardRange(OwnName, 1, MinBound, MaxBound, SR_SHARDING, 0)
          /\ ranges \in {SeqToSet(l) : l \in SplitRanges}
          /\ scan_done \in BOOLEAN
       \/ /\ ~conf.is_root
          /\ \E p \in {q \in BoundPoints \X BoundPoints :
                          q[1] < q[2] /\ q[2] < MaxBound},
                s \in {SR_SHRINKING, SR_SHARDED} :
                own = [ShardRange(OwnName, 1, p[1], p[2], s, 0)
                          EXCEPT !.deleted = (s = SR_SHARDED)]
          /\ ranges = {ShardRange(SiblingName(1), 2, own.lower, MaxBound,
                                   SR_ACTIVE, 1)}
          /\ scan_done = TRUE
    /\ epoch = 1
    /\ ctx = [cursor |-> NoCursor, done |-> FALSE]
    /\ objects \in SUBSET Names
    /\ shards \in {<<>>,
                    SiblingName(1) :> [objects |-> {2 * MaxName}, rows |-> {}]}
    /\ sent = <<>>
    /\ driver = NoDriver
    /\ call = NoCall
    /\ hist = [[HistReset([once |-> {}, twice |-> {}, killed |-> FALSE,
                         reports |-> 0, runs |-> 0, cycle |-> FALSE,
                         scanned |-> FALSE, found |-> 0,
                         scan_complete |-> FALSE])
               EXCEPT !.runs = 0] EXCEPT !.cycle = FALSE]

\* One call of _cleave
CleaveCall ==
    /\ ~hist.cycle
    /\ \E env \in StopEnvs(World) :
          LET cl == Cleave([World EXCEPT !.hist = HistReset(@)], env)
          IN Install([cl.w EXCEPT
                 !.hist.cleave_ret = IF cl.ret THEN "true" ELSE "false",
                 !.hist.stop = cl.stop])

CleaveNext == CleaveCall

CleaveSpec == CleaveInit /\ [][CleaveNext]_vars

\* The turns of the cleave loop that were shrinks.
Shrinks == {i \in 1..Len(hist.turns) : hist.turns[i].shrinking}

\* The copies of the own range of the source in the shard broker of a turn.
OwnCopies(t) == {r \in t.shard.rows : r.name = OwnName}

\* C26: after a shrink the source broker and the acceptor's broker both
\* hold the own range of the source deleted and SHARDED; a split writes no
\* deleted copy of the own range to either broker.
C26_DeletedOwnCopy ==
    /\ \A i \in Shrinks :
          LET t == hist.turns[i] IN
          /\ t.source_own.deleted /\ t.source_own.state = SR_SHARDED
          /\ OwnCopies(t) # {}
          /\ \A r \in OwnCopies(t) : r.deleted /\ r.state = SR_SHARDED
          /\ own.deleted /\ own.state = SR_SHARDED
    /\ \A i \in Splits :
          LET t == hist.turns[i] IN
          /\ OwnCopies(t) = {}
          /\ t.own_after = t.own_before
          /\ ~t.source_own.deleted /\ t.source_own.state # SR_SHARDED

\* A shrinking shard has cleaved its rows into its acceptor.
C26_Witness ==
    /\ hist.cycle /\ hist.stop = "none"
    /\ \E i \in Shrinks :
          /\ hist.turns[i].own_before.state = SR_SHRINKING
          /\ hist.turns[i].shard.objects # {}
          /\ hist.turns[i].source_own.deleted

\* A split has cleaved rows into a shard broker.
C26_WitnessSplit ==
    /\ hist.cycle /\ hist.stop = "none"
    /\ \E i \in Splits : hist.turns[i].shard.objects # {}

\* --------------------------------------------------- one _one_shard_cycle
\*
\* The loop of _one_shard_cycle over the brokers of the local partitions.
\* What the cycle does to a broker is the model above; here a broker is what
\* its visit ends in: sharding is not enabled ("disabled"), _process_broker
\* returns, raises an Exception (the TypeError of a failed fetch), or raises
\* a Timeout (make_request raises again the Timeout of its last try), which
\* is not an Exception.

MaxBrokers == 3

Outcomes == {"disabled", "returns", "raises", "timeout"}

BrokerLists == UNION {[1..n -> Outcomes] : n \in 1..MaxBrokers}

CycleInit ==
    /\ conf = [is_root |-> TRUE, node_index |-> 0, auto_shard |-> TRUE,
               shard_container_size |-> 2, scanner_batch_size |-> 1,
               shard_batch_size |-> 1, db_deleted |-> FALSE, tombstones |-> {}]
    /\ db_state = UNSHARDED
    /\ own = InitOwn(TRUE)
    /\ ranges = {}
    /\ scan_done = FALSE
    /\ epoch = 0
    /\ ctx = [cursor |-> NoCursor, done |-> FALSE]
    /\ objects = {}
    /\ shards = <<>>
    /\ sent = <<>>
    /\ hist = [[HistReset([once |-> {}, twice |-> {}, killed |-> FALSE,
                         reports |-> 0, runs |-> 0, cycle |-> FALSE,
                         scanned |-> FALSE, found |-> 0,
                         scan_complete |-> FALSE])
               EXCEPT !.runs = 0] EXCEPT !.cycle = FALSE]
    /\ driver \in [brokers : BrokerLists, next : {1}, stats : {ZeroStats},
                    visited : {{}}, zeroed : {FALSE}, drained : {FALSE},
                    pc : {"loop"}, bypass : {TRUE}, cleanups : {{}},
                    dropped : {{}}, deleted : {{}}]
    /\ call = NoCall

\* _increment_stat('visited', key)
IncrementStat(stats, key) == [stats EXCEPT ![key] = @ + 1]

\* The try statement around _process_broker: the handler catches Exception,
\* and a Timeout leaves it with only 'attempted' counted. The first variant
\* counts a broker whose processing raised as a success too.
VisitedCountingRaised(stats, outcome) ==
    LET s1 == IncrementStat(stats, "attempted")
    IN IF outcome = "raises"
       THEN IncrementStat(IncrementStat(s1, "failure"), "success")
       ELSE IF outcome = "returns" THEN IncrementStat(s1, "success")
       ELSE s1
Visited(stats, outcome) ==
    LET s1 == IncrementStat(stats, "attempted")
    IN IF outcome = "raises" THEN IncrementStat(s1, "failure")
       ELSE IF outcome = "returns" THEN IncrementStat(s1, "success")
       ELSE s1

\* delete_db, called by _replicate_object for a shard broker on a handoff
\* partition that was replicated to every node: while shard_cleanups is a
\* dict (bypass) the broker is recorded in it, otherwise the database is
\* deleted. Each deletion is recorded with the turn of the loop it happens
\* in (Len(brokers) + 1 for the end of the cycle).
DeleteDb(d, db, by) ==
    IF d.bypass
    THEN [d EXCEPT !.cleanups = @ \cup {db}]
    ELSE [d EXCEPT !.deleted = @ \cup {[db |-> db, by |-> by, at |-> d.next]}]

\* The drain: shard_cleanups is set to None and delete_db is spawned for
\* every broker recorded in it, then the pool is joined.
DrainCleanups(d, by) ==
    LET d1 == [d EXCEPT !.bypass = FALSE, !.cleanups = {}]
    IN [d1 EXCEPT !.deleted =
            @ \cup {[db |-> db, by |-> by, at |-> d.next] : db \in d.cleanups}]

\* What the sweep of a broker does to shard_cleanups. It returns early for a
\* deleted broker, an own range in EXPANDING state, or no query ("early");
\* it raises before its last lines ("raises", with or without a shard
\* broker replicated before); or it runs to its last lines, which drain
\* shard_cleanups, after replicating a shard broker ("moves") or not
\* ("drains").
SweepKinds == {"early", "drains", "moves", "raises", "moves_raises"}
SweepCleanups(d, sweep) ==
    LET db == <<d.next, "sweep">>
    IN CASE sweep = "early" -> d
         [] sweep = "raises" -> d
         [] sweep = "moves_raises" -> DeleteDb(d, db, "call")
         [] sweep = "drains" -> DrainCleanups(d, "sweep")
         [] sweep = "moves" -> DrainCleanups(DeleteDb(d, db, "call"), "sweep")

\* _process_broker after the sweep: a deleted broker returns ("deleted");
\* for any other shard_cleanups is set to a new dict, and the shard brokers
\* replicated after creation or by _cleave are recorded ("replicates") or
\* there are none ("none").
LaterKinds == {"deleted", "none", "replicates"}
LaterCleanups(d, later) ==
    LET d1 == [d EXCEPT !.bypass = TRUE, !.cleanups = {},
                        !.dropped = @ \cup d.cleanups]
    IN CASE later = "deleted" -> d
         [] later = "none" -> d1
         [] later = "replicates" -> DeleteDb(d1, <<d.next, "cleave">>, "call")

\* The ways one outcome of a visit can come about.
Ways(outcome) ==
    {x \in SweepKinds \X LaterKinds :
        CASE outcome = "disabled" -> x = <<"early", "deleted">>
          [] outcome = "returns" ->
                /\ x[1] \in {"early", "drains", "moves"}
                /\ x[2] = "deleted" => x[1] = "early"
          [] OTHER ->
                \/ x[1] \in {"raises", "moves_raises"} /\ x[2] = "deleted"
                \/ x[1] \in {"early", "drains", "moves"} /\ x[2] # "deleted"}

\* One turn of the loop over the brokers; hourly says whether an hour has
\* passed since the last report (_periodic_report_stats).
VisitBroker ==
    /\ driver.pc = "loop" /\ driver.next <= Len(driver.brokers)
    /\ \E hourly \in BOOLEAN :
       \E x \in Ways(driver.brokers[driver.next]) :
          LET outcome == driver.brokers[driver.next]
              s1 == IF outcome = "disabled"
                    THEN IncrementStat(driver.stats, "skipped")
                    ELSE Visited(driver.stats, outcome)
              d0 == IF outcome = "disabled" THEN driver
                    ELSE LaterCleanups(SweepCleanups(driver, x[1]), x[2])
              d1 == [d0 EXCEPT !.stats = s1,
                               !.visited = @ \cup {driver.next},
                               !.next = @ + 1]
          IN driver' = IF outcome = "timeout" THEN [d1 EXCEPT !.pc = "aborted"]
                       ELSE IF hourly
                       THEN [d1 EXCEPT !.stats = ZeroStats, !.zeroed = TRUE]
                       ELSE d1
    /\ UNCHANGED brokerVars

\* The end of _one_shard_cycle: the cleanups are drained and the stats
\* reported.
FinishCycle ==
    /\ driver.pc = "loop" /\ driver.next > Len(driver.brokers)
    /\ driver' = [DrainCleanups(driver, "cycle")
                    EXCEPT !.drained = TRUE, !.pc = "done"]
    /\ UNCHANGED brokerVars

CycleNext ==
    \/ VisitBroker
    \/ FinishCycle

CycleSpec == CycleInit /\ [][CycleNext]_vars

\* The brokers of the cycle whose processing ends in the given way.
Ending(outcome) == {i \in 1..Len(driver.brokers) : driver.brokers[i] = outcome}

\* How the claim says a cycle ends: it is not aborted, every broker was
\* visited, the brokers whose processing raised are counted as failures,
\* and without a periodic report attempted = success + failure.
Isolated ==
    /\ driver.pc = "done"
    /\ driver.visited = 1..Len(driver.brokers)
    /\ ~driver.zeroed =>
          /\ driver.stats.failure
                 = Cardinality(Ending("raises") \cup Ending("timeout"))
          /\ driver.stats.attempted
                 = driver.stats.success + driver.stats.failure

\* C30: an exception raised while a broker is processed does not abort the
\* cycle: it is counted in visited.failure, every remaining broker is
\* visited, and at the end of a cycle without a periodic report
\* visited.attempted = visited.success + visited.failure.
C30_FailureIsolation ==
    driver.pc \in {"done", "aborted"} => Isolated

\* The same for the cycles in which no Timeout is raised.
C30_ExceptionIsolation ==
    (driver.pc \in {"done", "aborted"} /\ Ending("timeout") = {}) => Isolated

\* A Timeout raised for the second of three brokers ends the cycle: the
\* third broker is not visited and the second is counted as attempted only.
C30_TimeoutAborts ==
    /\ driver.pc = "aborted" /\ Len(driver.brokers) = 3
    /\ driver.brokers[1] = "returns" /\ driver.brokers[2] = "timeout"
    /\ driver.visited = {1, 2} /\ ~driver.zeroed
    /\ driver.stats.attempted = 2 /\ driver.stats.success = 1
    /\ driver.stats.failure = 0

\* A cycle in which the first broker raised an Exception and the others
\* were visited all the same.
C30_Witness ==
    /\ driver.pc = "done" /\ Len(driver.brokers) = 3 /\ ~driver.zeroed
    /\ driver.brokers[1] = "raises" /\ driver.brokers[3] = "returns"
    /\ driver.stats.failure >= 1 /\ driver.stats.success >= 1

\* The databases deleted before the end of the cycle, that is while a broker
\* of the loop was still to be visited or being visited.
DeletedEarly == {x \in driver.deleted : x.at <= Len(driver.brokers)}

\* C31: while a cycle is in progress a call of delete_db for a replicated
\* shard broker deletes nothing: the broker is recorded in shard_cleanups and
\* its database is deleted only by the drain at the end of the cycle.
C31_DeletedAtCycleEnd ==
    /\ \A x \in driver.deleted : x.by = "cycle"
    /\ DeletedEarly = {}

\* What holds of the calls alone: no call made for a replicated shard broker
\* deletes its database, every deletion is made by a drain.
C31_NoCallDeletes ==
    \A x \in driver.deleted : x.by \in {"sweep", "cycle"}

\* The shard broker replicated by the sweep of the first of three brokers
\* is deleted by the last lines of that sweep, with two brokers still to be
\* visited.
C31_DeletedBySweep ==
    /\ Len(driver.brokers) = 3 /\ driver.next = 2 /\ driver.pc = "loop"
    /\ [db |-> <<1, "sweep">>, by |-> "sweep", at |-> 1] \in driver.deleted

\* A shard broker recorded by the cleave of one broker is dropped from
\* shard_cleanups when the next broker is processed, and no drain deletes it.
C31_Dropped ==
    /\ driver.pc = "done"
    /\ <<1, "cleave">> \in driver.dropped
    /\ \A x \in driver.deleted : x.db # <<1, "cleave">>

\* C32: every fan-out of tasks to the worker pool is joined before the state
\* advance that follows it is stored: when _cleave stores the new cursor and
\* done flag, none of the replications it spawned is still to be joined.
C32_JoinedBeforePersist ==
    hist.persist_pool <= 0

\* A call of _cleave that cleaved two ranges and stored the cursor at the
\* upper bound of the second while both replications were still in the pool.
C32_PersistedBeforeJoin ==
    /\ hist.cycle /\ hist.stop = "none" /\ Len(hist.turns) = 2
    /\ hist.persist_pool = 2
    /\ ctx.cursor = Str(hist.turns[2].sr.upper)

\* The early return of _cleave stores nothing and joins nothing: the
\* replication of the range cleaved before stays in the pool.
C32_ReturnedWithoutJoin ==
    /\ hist.cycle /\ hist.stop = "dev" /\ Len(hist.turns) = 1
    /\ hist.persist_pool = -1 /\ hist.pool = 1

\* C40: whenever _send_shard_ranges is called the pool holds no task of an
\* earlier step that was not joined, so the results counted against the
\* quorum are those of the call's own PUTs.
C40_PoolEmptyAtSend ==
    \A i \in 1..Len(hist.stale) : hist.stale[i] = 0

\* A shard whose _cleave cleaved one range and returned early on the second
\* for want of a device: the report to the root that follows joins the
\* replication left in the pool together with its own PUTs.
C40_StaleTaskAtSend ==
    /\ hist.cycle /\ ~IsRoot /\ hist.stop = "dev" /\ Len(hist.turns) = 1
    /\ Len(sent) >= 1 /\ Len(hist.stale) = Len(sent)
    /\ sent[Len(sent)].to = RootName
    /\ hist.stale[Len(sent)] = 1

\* ------------------------------------------------------ RangeAnalyser
\*
\* A call of RangeAnalyser.analyse on a list of shard ranges. A range is
\* [lower, upper, timestamp] with bounds as the strings the analyser
\* compares: '' is both the least lower and the greatest upper bound.

\* Largest number of ranges in the list analysed.
MaxRanges == 4
\* Largest timestamp of a range analysed.
MaxStamp == 2
\* The bounds other than '' a range analysed can have ('m' and 'p').
InnerBounds == {2, 4}

AnalysedRanges ==
    {r \in [lower : {EmptyStr} \cup InnerBounds,
            upper : {EmptyStr} \cup InnerBounds,
            timestamp : 1..MaxStamp] :
        r.upper = EmptyStr \/ r.lower < r.upper}

\* The order of ranges.sort() and sorted(): by (lower, timestamp).
SortsBefore(a, b) ==
    \/ a.lower < b.lower
    \/ a.lower = b.lower /\ a.timestamp < b.timestamp

\* ranges.sort(): the sort is stable, so ranges that compare equal keep the
\* order of the list passed; the lists drawn are the results of the sort.
SortedLists ==
    {rs \in UNION {[1..n -> AnalysedRanges] : n \in 1..MaxRanges} :
        /\ \A i, j \in 1..Len(rs) : i < j => rs[i] # rs[j]
        /\ \A i \in 1..(Len(rs) - 1) : ~SortsBefore(rs[i + 1], rs[i])}

\* The variables of the broker and of the cycle in the specifications of a
\* call that uses none of them.
NoBroker ==
    /\ conf = [is_root |-> TRUE, node_index |-> 0, auto_shard |-> TRUE,
               shard_container_size |-> 2, scanner_batch_size |-> 1,
               shard_batch_size |-> 1, db_deleted |-> FALSE, tombstones |-> {}]
    /\ db_state = UNSHARDED
    /\ own = InitOwn(TRUE)
    /\ ranges = {}
    /\ scan_done = FALSE
    /\ epoch = 0
    /\ ctx = [cursor |-> NoCursor, done |-> FALSE]
    /\ objects = {}
    /\ shards = <<>>
    /\ sent = <<>>
    /\ hist = [[HistReset([once |-> {}, twice |-> {}, killed |-> FALSE,
                         reports |-> 0, runs |-> 0, cycle |-> FALSE,
                         scanned |-> FALSE, found |-> 0,
                         scan_complete |-> FALSE])
               EXCEPT !.runs = 0] EXCEPT !.cycle = FALSE]
    /\ driver = NoDriver

\* _build: the ranges are linked by their positions in the sorted list.
\* lists[0] is self.path and lists[i] the list a RangeLink of range i was
\* made with; upto maps a bound to the list that takes the ranges starting
\* at it, and link[i] is the list that is the upper of the link of range i.
RECURSIVE BuildFrom(_, _, _)
BuildFrom(rs, i, b) ==
    IF i > Len(rs) THEN b
    ELSE LET r == rs[i]
             b1 == IF r.lower \notin DOMAIN b.upto
                   THEN [b EXCEPT !.gaps = Append(@, i)]
                   ELSE [b EXCEPT !.lists[b.upto[r.lower]] = Append(@, i)]
             b2 == IF r.upper # EmptyStr /\ r.upper \in DOMAIN b1.upto
                   THEN [b1 EXCEPT !.link = (i :> b1.upto[r.upper]) @@ @]
                   ELSE IF r.upper # EmptyStr
                   THEN [b1 EXCEPT !.upto = (r.upper :> i) @@ @,
                                   !.link = (i :> i) @@ @]
                   ELSE [b1 EXCEPT !.link = (i :> i) @@ @]
         IN BuildFrom(rs, i + 1, b2)

Build(rs) ==
    BuildFrom(rs, 1, [upto |-> (EmptyStr :> 0),
                      lists |-> [k \in 0..Len(rs) |-> <<>>],
                      gaps |-> <<>>, link |-> <<>>])

\* rangelink.upper
UpperOf(b, i) == b.lists[b.link[i]]

\* No path posted yet (_reset). A key of newest is <<timestamp, offset>>;
\* an index is <<'c' or 'i', place in self.complete or self.incomplete>>.
NoPaths == [complete |-> <<>>, incomplete |-> <<>>, newest |-> <<>>,
            raised |-> FALSE]

\* self.newest[newest] gets idx appended, or is made.
Register(a, newest, idx) ==
    LET k == <<newest, 0>>
    IN IF k \in DOMAIN a.newest
       THEN [a EXCEPT !.newest[k] = Append(@, idx)]
       ELSE [a EXCEPT !.newest = (k :> <<idx>>) @@ @]

\* self.newest[ts].remove(idx), or self.newest.pop(ts)
Unregister(a, k, idx) ==
    IF Len(a.newest[k]) > 1
    THEN [a EXCEPT !.newest[k] = SelectSeq(@, LAMBDA x : x # idx)]
    ELSE [a EXCEPT !.newest = [j \in DOMAIN a.newest \ {k} |-> a.newest[j]]]

\* r[-1] < result[0]: the whole of one range lies below the other
LiesBelow(last, first) == last.upper < first.lower

\* _post_result: a complete path is added to self.complete; an incomplete
\* one is joined to the incomplete path that ends below it with the greatest
\* last range, if there is one, and added to self.incomplete otherwise.
PostResult(rs, a, newest, complete, result) ==
    IF complete
    THEN Register([a EXCEPT !.complete = Append(@, result)], newest,
                  <<"c", Len(a.complete) + 1>>)
    ELSE LET last(i) == rs[a.incomplete[i][Len(a.incomplete[i])]]
             matched == {i \in 1..Len(a.incomplete) :
                            /\ last(i).upper # EmptyStr
                            /\ LiesBelow(last(i), rs[result[1]])}
         IN IF matched = {}
            THEN Register([a EXCEPT !.incomplete = Append(@, result)], newest,
                          <<"i", Len(a.incomplete) + 1>>)
            ELSE LET i == CHOOSE x \in matched : \A y \in matched :
                                 /\ ~SortsBefore(last(x), last(y))
                                 /\ ~SortsBefore(last(y), last(x)) => x <= y
                     a1 == [a EXCEPT !.incomplete[i] = @ \o result]
                     idx == <<"i", i>>
                     current == {k \in DOMAIN a.newest :
                                    \E n \in 1..Len(a.newest[k]) :
                                        a.newest[k][n] = idx}
                 IN IF current = {} THEN Register(a1, newest, idx)
                    ELSE LET k == CHOOSE x \in current : TRUE
                         IN IF Max2(k[1], newest) = k[1] THEN a1
                            ELSE Register(Unregister(a1, k, idx), newest, idx)

\* _walk from the link of range i: the results of the branches after the
\* first are posted on the way, that of the first is returned.
RECURSIVE Walk(_, _, _, _, _, _)
RECURSIVE WalkBranches(_, _, _, _, _, _, _)
Walk(rs, b, a, i, ts, result) ==
    LET newest == Max2(ts, rs[i].timestamp)
        res == Append(result, i)
        ups == UpperOf(b, i)
    IN IF ups = <<>>
       THEN [a |-> a, newest |-> newest,
             complete |-> rs[i].upper = EmptyStr, result |-> res]
       ELSE Walk(rs, b, WalkBranches(rs, b, a, ups, 2, newest, res),
                 ups[1], newest, res)
WalkBranches(rs, b, a, ups, n, newest, res) ==
    IF n > Len(ups) THEN a
    ELSE LET x == Walk(rs, b, a, ups[n], newest, res)
         IN WalkBranches(rs, b,
                PostResult(rs, x.a, x.newest, x.complete, x.result),
                ups, n + 1, newest, res)

\* _scan, its two loops: over self.path, then over self.gaps, whose results
\* are posted as incomplete.
RECURSIVE ScanFrom(_, _, _, _, _, _)
ScanFrom(rs, b, a, roots, n, gap) ==
    IF n > Len(roots) THEN a
    ELSE LET x == Walk(rs, b, a, roots[n], rs[roots[n]].timestamp, <<>>)
         IN ScanFrom(rs, b,
                PostResult(rs, x.a, x.newest, ~gap /\ x.complete, x.result),
                roots, n + 1, gap)

\* The ranges of a path, as a set.
Members(rs, path) == {rs[path[n]] : n \in 1..Len(path)}

\* self.paths[idx[:1]][int(idx[1:])]
PathOf(a, idx) ==
    IF idx[1] = "c" THEN a.complete[idx[2]] ELSE a.incomplete[idx[2]]

\* sorted(seq, reverse=True) of a sequence of timestamps
SortedDown(v) ==
    LET place(j) == 1 + Cardinality({l \in 1..Len(v) :
                        v[l] > v[j] \/ (v[l] = v[j] /\ l < j)})
    IN [n \in 1..Len(v) |-> v[CHOOSE j \in 1..Len(v) : place(j) = n]]

\* The order of the strings joined from timestamps of one width.
LexLess(s, t) ==
    \E n \in 1..Len(s) : s[n] < t[n] /\ \A m \in 1..(n - 1) : s[m] = t[m]

\* _break_ties for the paths that share the key k: what each has that
\* another has not, the greatest timestamp of each difference, sorted
\* downwards. max() of an empty difference raises.
TieDiffs(rs, a, k, n) ==
    LET others == SelectSeq([m \in 1..Len(a.newest[k]) |-> m],
                            LAMBDA m : a.newest[k][m] # a.newest[k][n])
    IN [m \in 1..Len(others) |->
            {r.timestamp :
                r \in Members(rs, PathOf(a, a.newest[k][n]))
                        \ Members(rs, PathOf(a, a.newest[k][others[m]]))}]
TieKey(rs, a, k, n) ==
    LET d == TieDiffs(rs, a, k, n)
    IN SortedDown([m \in 1..Len(d) |-> MaxOf(d[m])])
TieRaises(rs, a, k) ==
    \E n \in 1..Len(a.newest[k]) :
        LET d == TieDiffs(rs, a, k, n)
        IN \E m \in 1..Len(d) : d[m] = {}

\* timestamps.sort(key=...): the place of the n-th tied path, which is the
\* offset its key gets.
TiePlace(rs, a, k, n) ==
    1 + Cardinality({m \in 1..Len(a.newest[k]) :
            \/ LexLess(TieKey(rs, a, k, m), TieKey(rs, a, k, n))
            \/ TieKey(rs, a, k, m) = TieKey(rs, a, k, n) /\ m < n})

BreakTies(rs, a) ==
    LET tied == {k \in DOMAIN a.newest : Len(a.newest[k]) > 1}
        keys == (DOMAIN a.newest \ tied)
                  \cup {<<k[1], n>> : k \in tied, n \in 1..MaxRanges}
        entry(key) ==
            IF key[2] = 0 THEN a.newest[key]
            ELSE LET k == <<key[1], 0>>
                     at == {n \in 1..Len(a.newest[k]) :
                               TiePlace(rs, a, k, n) = key[2]}
                 IN IF at = {} THEN <<>>
                    ELSE <<a.newest[k][CHOOSE n \in at : TRUE]>>
    IN IF \E k \in tied : TieRaises(rs, a, k)
       THEN [a EXCEPT !.raised = TRUE]
       ELSE [a EXCEPT !.newest =
                [key \in {x \in keys : entry(x) # <<>>} |-> entry(key)]]

\* _scan
Scan(rs, b) ==
    BreakTies(rs, ScanFrom(rs, b, ScanFrom(rs, b, NoPaths, b.lists[0], 1, FALSE),
                           b.gaps, 1, TRUE))

\* sorted(path)
SortedPath(rs, path) ==
    LET place(j) == 1 + Cardinality({l \in 1..Len(path) :
                        \/ SortsBefore(rs[path[l]], rs[path[j]])
                        \/ ~SortsBefore(rs[path[j]], rs[path[l]]) /\ l < j})
    IN [n \in 1..Len(path) |-> rs[path[CHOOSE j \in 1..Len(path) : place(j) = n]]]

\* _pick: the keys of newest from the greatest down, and for each the path
\* of its first index, the ranges not in it, and whether it is complete.
\* The first variant takes the keys from the least up.
KeyAfterOldest(x, y) == x[1] < y[1] \/ (x[1] = y[1] /\ x[2] < y[2])
KeyAfter(x, y) == x[1] > y[1] \/ (x[1] = y[1] /\ x[2] > y[2])
Pick(rs, a) ==
    LET keys == DOMAIN a.newest
        place(k) == 1 + Cardinality({x \in keys : KeyAfter(x, k)})
    IN [n \in 1..Cardinality(keys) |->
            LET k == CHOOSE x \in keys : place(x) = n
                idx == a.newest[k][1]
            IN [path |-> SortedPath(rs, PathOf(a, idx)),
                others |-> {rs[j] : j \in 1..Len(rs)}
                              \ Members(rs, PathOf(a, idx)),
                complete |-> idx[1] = "c",
                key |-> k]]

\* analyse: the paths yielded, or the RangeAnalyserException of _scan
Analyse(rs) ==
    LET a == Scan(rs, Build(rs))
    IN IF a.raised THEN [raised |-> TRUE, yields |-> <<>>]
       ELSE [raised |-> FALSE, yields |-> Pick(rs, a)]

\* check_complete_ranges: the uppers that are the lower of no range, zipped
\* with the lowers that are the upper of no range. ou and ol are the orders
\* in which the two sets are iterated, which the language does not fix.
Unmatched(rs) ==
    LET lower == {rs[n].lower : n \in 1..Len(rs)}
        upper == {rs[n].upper : n \in 1..Len(rs)}
    IN [lower |-> lower \ upper, upper |-> upper \ lower]
Orders(S) ==
    {f \in [1..Cardinality(S) -> S] :
        \A i, j \in 1..Cardinality(S) : i # j => f[i] # f[j]}
CheckCompleteRanges(rs, ou, ol) ==
    [n \in 1..Min2(Len(ou), Len(ol)) |-> <<ou[n], ol[n]>>]

AnalyserInit ==
    /\ NoBroker
    /\ call \in [op : {"analyse", "check_complete_ranges"},
                  ranges : SortedLists, pc : {"called"}]

AnalyseCall ==
    /\ call.op = "analyse" /\ call.pc = "called"
    /\ LET res == Analyse(call.ranges)
       IN call' = [op |-> "analyse", ranges |-> call.ranges,
                   pc |-> IF res.raised THEN "raised" ELSE "returned",
                   yields |-> res.yields]
    /\ UNCHANGED <<conf, db_state, own, ranges, scan_done, epoch, ctx,
                   objects, shards, sent, hist, driver>>

CheckCompleteCall ==
    /\ call.op = "check_complete_ranges" /\ call.pc = "called"
    /\ \E ou \in Orders(Unmatched(call.ranges).upper) :
       \E ol \in Orders(Unmatched(call.ranges).lower) :
          call' = [op |-> call.op, ranges |-> call.ranges, pc |-> "returned",
                   pairs |-> CheckCompleteRanges(call.ranges, ou, ol)]
    /\ UNCHANGED <<conf, db_state, own, ranges, scan_done, epoch, ctx,
                   objects, shards, sent, hist, driver>>

AnalyserNext ==
    \/ AnalyseCall
    \/ CheckCompleteCall

AnalyserSpec == AnalyserInit /\ [][AnalyserNext]_vars

\* The greatest timestamp among the ranges of a yielded path.
Greatest(y) == MaxOf({y.path[n].timestamp : n \in 1..Len(y.path)})

\* The list of the example: ('', 'm') and ('m', '') at timestamp 1,
\* ('', 'p') and ('p', '') at timestamp 2, as sorted.
ExampleRanges ==
    <<[lower |-> EmptyStr, upper |-> 2, timestamp |-> 1],
      [lower |-> EmptyStr, upper |-> 4, timestamp |-> 2],
      [lower |-> 2, upper |-> EmptyStr, timestamp |-> 1],
      [lower |-> 4, upper |-> EmptyStr, timestamp |-> 2]>>

\* C33: analyse yields the paths from newest to oldest by the greatest
\* timestamp among each path's ranges; for the example the first path is the
\* pair at timestamp 2 and the pair at timestamp 1 follows as a complete
\* path.
C33_NewestFirst ==
    (call.op = "analyse" /\ call.pc = "returned") =>
        /\ \A n \in 1..(Len(call.yields) - 1) :
              Greatest(call.yields[n]) >= Greatest(call.yields[n + 1])
        /\ call.ranges = ExampleRanges =>
              /\ Len(call.yields) = 2
              /\ call.yields[1].path = <<ExampleRanges[2], ExampleRanges[4]>>
              /\ call.yields[1].complete
              /\ call.yields[2].path = <<ExampleRanges[1], ExampleRanges[3]>>
              /\ call.yields[2].complete

\* The example has been analysed.
C33_Witness ==
    /\ call.op = "analyse" /\ call.pc = "returned"
    /\ call.ranges = ExampleRanges /\ Len(call.yields) = 2

\* Two paths tied at one timestamp are yielded with offsets 2 and 1, after
\* a path of a greater timestamp.
C33_WitnessTie ==
    /\ call.op = "analyse" /\ call.pc = "returned"
    /\ Len(call.yields) = 3
    /\ call.yields[1].key[2] = 0
    /\ call.yields[2].key = <<1, 2>> /\ call.yields[3].key = <<1, 1>>

\* A full chain: from lower '' to upper '' with every range starting where
\* the one before ends.
FullChain(path) ==
    /\ path[1].lower = EmptyStr
    /\ path[Len(path)].upper = EmptyStr
    /\ \A n \in 1..(Len(path) - 1) : path[n + 1].lower = path[n].upper

\* C34: a path yielded as complete is a chain from lower '' to upper '' with
\* no gap and no overlap; a path yielded as incomplete is not such a chain
\* (it does not end at upper '' or it has a gap).
C34_CompleteIsChain ==
    (call.op = "analyse" /\ call.pc = "returned") =>
        \A n \in 1..Len(call.yields) :
            call.yields[n].complete <=> FullChain(call.yields[n].path)

\* The same for the paths walked from a range that starts at ''.
C34_CompleteFromStart ==
    (call.op = "analyse" /\ call.pc = "returned") =>
        \A n \in 1..Len(call.yields) :
            call.yields[n].path[1].lower = EmptyStr =>
                (call.yields[n].complete <=> FullChain(call.yields[n].path))

\* A path that starts at 'm' with nothing below it is yielded as complete.
C34_CompleteAfterGap ==
    /\ call.op = "analyse" /\ call.pc = "returned"
    /\ \E n \in 1..Len(call.yields) :
          /\ call.yields[n].complete
          /\ call.yields[n].path[1].lower = 2
          /\ \A j \in 1..Len(call.ranges) : call.ranges[j].upper # 2

\* The upper bounds of the ranges checked at which no range starts.
Dangling(rs) ==
    {u \in {rs[n].upper : n \in 1..Len(rs)} :
        \A n \in 1..Len(rs) : rs[n].lower # u}

\* The lists that tile the namespace: ['', x), [x, y), [y, '').
Tiling(rs) ==
    /\ Len(rs) = 3
    /\ rs[1].lower = EmptyStr /\ rs[2].lower = rs[1].upper
    /\ rs[3].lower = rs[2].upper /\ rs[3].upper = EmptyStr
    /\ rs[1].upper # EmptyStr /\ rs[2].upper # EmptyStr

Checked == call.op = "check_complete_ranges" /\ call.pc = "returned"

\* C35: check_complete_ranges returns a pair for every upper bound at which
\* no range starts, so the result is empty exactly when there is no such
\* bound, and it is empty for a tiling of the namespace.
C35_PairForEveryGap ==
    Checked =>
        /\ {call.pairs[n][1] : n \in 1..Len(call.pairs)} = Dangling(call.ranges)
        /\ call.pairs = <<>> <=> Dangling(call.ranges) = {}
        /\ Tiling(call.ranges) => call.pairs = <<>>

\* What holds: the result is empty for a tiling, every pair is an upper at
\* which no range starts with a lower at which no range ends, and there are
\* as many pairs as the smaller of the two sets has bounds.
C35_TilingHasNoPair ==
    Checked =>
        /\ Tiling(call.ranges) => call.pairs = <<>>
        /\ \A n \in 1..Len(call.pairs) :
              /\ call.pairs[n][1] \in Unmatched(call.ranges).upper
              /\ call.pairs[n][2] \in Unmatched(call.ranges).lower
        /\ Len(call.pairs) =
              Min2(Cardinality(Unmatched(call.ranges).upper),
                   Cardinality(Unmatched(call.ranges).lower))

\* For ('', 'm') and ('', '') no pair is returned although no range starts
\* at 'm'.
C35_GapWithoutPair ==
    /\ Checked /\ Len(call.ranges) = 2
    /\ call.ranges[1].lower = EmptyStr /\ call.ranges[2].lower = EmptyStr
    /\ {call.ranges[1].upper, call.ranges[2].upper} = {2, EmptyStr}
    /\ call.pairs = <<>>

\* A tiling has been checked.
C35_WitnessTiling ==
    Checked /\ Tiling(call.ranges) /\ call.pairs = <<>>

\* ------------------------------------------- InternalClient.make_request
\*
\* A call of make_request. request_tries is a positive integer
\* (config_positive_int_value); each try ends in a response with an
\* acceptable status, a response with another status, an Exception or a
\* Timeout.

\* Largest request_tries.
MaxTries == 3

TryOutcomes == {"acceptable", "unacceptable", "exception", "timeout"}

RequestInit ==
    /\ NoBroker
    /\ call \in [op : {"make_request"}, request_tries : 1..MaxTries,
                 attempt : {0}, resp : {"none"}, exc : {"none"},
                 outcomes : {<<>>}, slept : {<<>>}, pc : {"loop"},
                 result : {"none"}]

\* 2 ** n
RECURSIVE Pow2(_)
Pow2(n) == IF n = 0 THEN 1 ELSE 2 * Pow2(n - 1)

\* The test before sleep: only between tries, not after each one. The first
\* variant sleeps after every try.
SleepsAfterEach(attempt, request_tries) == attempt < request_tries
SleepsAfter(attempt, request_tries) == attempt < request_tries - 1

\* One turn of the loop over xrange(self.request_tries).
Try ==
    /\ call.op = "make_request" /\ call.pc = "loop"
    /\ call.attempt < call.request_tries
    /\ \E outcome \in TryOutcomes :
          LET c1 == [call EXCEPT !.outcomes = Append(@, outcome)]
              c2 == CASE outcome = "acceptable" -> [c1 EXCEPT !.resp = outcome]
                      [] outcome = "unacceptable" -> [c1 EXCEPT !.resp = outcome]
                      [] outcome = "exception" -> [c1 EXCEPT !.exc = "Exception"]
                      [] outcome = "timeout" -> [c1 EXCEPT !.exc = "Timeout"]
              c3 == IF SleepsAfter(call.attempt, call.request_tries)
                    THEN [c2 EXCEPT !.slept = Append(@, Pow2(call.attempt + 1))]
                    ELSE c2
          IN call' = IF outcome = "acceptable"
                     THEN [c2 EXCEPT !.pc = "returned", !.result = c2.resp]
                     ELSE [c3 EXCEPT !.attempt = @ + 1]
    /\ UNCHANGED <<conf, db_state, own, ranges, scan_done, epoch, ctx,
                   objects, shards, sent, hist, driver>>

\* After the loop: UnexpectedResponse if a try got a response, else the
\* exception of the last try that raised.
GiveUp ==
    /\ call.op = "make_request" /\ call.pc = "loop"
    /\ call.attempt >= call.request_tries
    /\ call' = IF call.resp # "none"
               THEN [call EXCEPT !.pc = "raised", !.result = "UnexpectedResponse"]
               ELSE IF call.exc # "none"
               THEN [call EXCEPT !.pc = "raised", !.result = call.exc]
               ELSE [call EXCEPT !.pc = "returned", !.result = "None"]
    /\ UNCHANGED <<conf, db_state, own, ranges, scan_done, epoch, ctx,
                   objects, shards, sent, hist, driver>>

RequestNext ==
    \/ Try
    \/ GiveUp

RequestSpec == RequestInit /\ [][RequestNext]_vars

\* The tries made so far that ended as given.
Tries(outcome) ==
    {n \in 1..Len(call.outcomes) : call.outcomes[n] = outcome}

\* C36: make_request makes at most request_tries tries, returns the first
\* acceptable response without a further try, never returns a response with
\* another status, sleeps between tries and not after the last, and raises
\* UnexpectedResponse when every try ended with an unacceptable response.
C36_Retries ==
    call.op = "make_request" =>
        /\ Len(call.outcomes) <= call.request_tries
        /\ Tries("acceptable") \subseteq {Len(call.outcomes)}
        /\ Tries("acceptable") # {} =>
              call.pc = "returned" /\ call.result = "acceptable"
        /\ call.pc = "returned" => call.result = "acceptable"
        /\ Len(call.slept) <= call.request_tries - 1
        /\ call.pc # "loop" => Len(call.slept) = Len(call.outcomes) - 1
        /\ \A n \in 1..Len(call.slept) : call.slept[n] = Pow2(n)
        /\ (call.pc # "loop"
               /\ Tries("unacceptable") = 1..Len(call.outcomes)) =>
              (call.pc = "raised" /\ call.result = "UnexpectedResponse")

\* The third of three tries is acceptable: it is returned after sleeps of 2
\* and 4 seconds.
C36_Witness ==
    /\ call.op = "make_request" /\ call.pc = "returned"
    /\ call.outcomes = <<"unacceptable", "exception", "acceptable">>
    /\ call.slept = <<2, 4>>

\* Three unacceptable responses end in UnexpectedResponse with no sleep
\* after the third.
C36_WitnessGaveUp ==
    /\ call.op = "make_request" /\ call.pc = "raised"
    /\ call.outcomes = <<"unacceptable", "unacceptable", "unacceptable">>
    /\ call.result = "UnexpectedResponse" /\ call.slept = <<2, 4>>

\* The (donor, acceptor) pairs of a run, by name and bounds.
PairNames(pairs) ==
    {[donor |-> pairs[k].donor.name, acceptor |-> pairs[k].acceptor.name,
      lower |-> pairs[k].donor.lower, upper |-> pairs[k].acceptor.upper] :
        k \in 1..Len(pairs)}

\* What a run sent to its donors: the donor, the Shard-Epoch, and the
\* timestamp, bounds, state and stats of the acceptor copy.
DonorSends(sends) ==
    {[to |-> sends[k].to, epoch |-> sends[k].headers.epoch,
      timestamp |-> sends[k].rows[2].timestamp,
      lower |-> sends[k].rows[2].lower, upper |-> sends[k].rows[2].upper,
      state |-> sends[k].rows[2].state,
      object_count |-> sends[k].rows[2].object_count] :
        k \in {n \in 1..Len(sends) : sends[n].headers.kind = "shrink"}}

SecondRun == call.op = "_find_shrinks" /\ call.run = 2

\* C37: a second run of _find_shrinks on a root that nothing changed
\* selects the same pairs, stores no change to a shard range, and sends each
\* donor the same acceptor copy and Shard-Epoch as the first run.
C37_ShrinkIdempotent ==
    SecondRun =>
        /\ PairNames(hist.merge_pairs) = PairNames(call.first.pairs)
        /\ ranges = call.ranges /\ own = call.own
        /\ DonorSends(sent) = DonorSends(call.first.sent)

\* A second run over three shards that selects the pair the first selected.
C37_Witness ==
    /\ SecondRun /\ Cardinality(ranges) = 3
    /\ Len(hist.merge_pairs) = 1 /\ Len(call.first.pairs) = 1
    /\ call.first.pairs[1].donor.state = SR_ACTIVE
    /\ hist.merge_pairs[1].donor.state = SR_SHRINKING
    /\ hist.merge_pairs[1].acceptor.state = SR_EXPANDING

\* A second run whose acceptor is the root's own range.
C37_WitnessOwn ==
    /\ SecondRun /\ Len(hist.merge_pairs) = 1
    /\ hist.merge_pairs[1].acceptor.name = OwnName
    /\ call.first.pairs[1].acceptor.state # SR_EXPANDING

\* The names of the donors and of the acceptors of a list of pairs.
Donors(pairs) == {pairs[k].donor.name : k \in 1..Len(pairs)}
Acceptors(pairs) == {pairs[k].acceptor.name : k \in 1..Len(pairs)}

\* C39: no shard range is both a donor and an acceptor. Within a run the
\* donors and the acceptors of the pairs selected are disjoint and no two
\* pairs share an acceptor; a range stored as SHRINKING is not selected as
\* an acceptor nor one stored as EXPANDING as a donor, and a second run makes
\* no donor of the first an acceptor and no acceptor of the first a donor.
C39_DonorNeverAcceptor ==
    call.op = "_find_shrinks" =>
        /\ Donors(hist.merge_pairs) \cap Acceptors(hist.merge_pairs) = {}
        /\ Cardinality(Acceptors(hist.merge_pairs)) = Len(hist.merge_pairs)
        /\ Cardinality(Donors(hist.merge_pairs)) = Len(hist.merge_pairs)
        /\ \A k \in 1..Len(hist.merge_pairs) :
              /\ hist.merge_pairs[k].acceptor.state # SR_SHRINKING
              /\ hist.merge_pairs[k].donor.state # SR_EXPANDING
        /\ \A r \in call.ranges :
              /\ r.state = SR_SHRINKING => r.name \notin Acceptors(hist.merge_pairs)
              /\ r.state = SR_EXPANDING => r.name \notin Donors(hist.merge_pairs)
        /\ call.run = 2 =>
              /\ Donors(call.first.pairs) \cap Acceptors(hist.merge_pairs) = {}
              /\ Acceptors(call.first.pairs) \cap Donors(hist.merge_pairs) = {}

\* Three small ACTIVE shards: the first is paired with the second, and the
\* second, now an acceptor, is not made the donor of the third.
C39_Witness ==
    /\ call.op = "_find_shrinks" /\ call.run = 1
    /\ Len(hist.candidates) = 3 /\ Len(hist.merge_pairs) = 1
    /\ \A i \in 1..3 : hist.candidates[i].state = SR_ACTIVE
                       /\ hist.candidates[i].object_count = 0
    /\ hist.merge_pairs[1].donor = hist.candidates[1]
    /\ hist.merge_pairs[1].acceptor = hist.candidates[2]

\* A second run in which the range left EXPANDING by the first is followed
\* by a small ACTIVE range and is still not made a donor.
C39_WitnessSecond ==
    /\ call.op = "_find_shrinks" /\ call.run = 2
    /\ Len(hist.candidates) = 3 /\ Len(hist.merge_pairs) = 1
    /\ hist.candidates[2].state = SR_EXPANDING
    /\ hist.candidates[3].state = SR_ACTIVE
    /\ hist.merge_pairs[1].acceptor = hist.candidates[2]

\* ------------------------------------------- cycles that keep running
\* A root on the leader node under run_forever, which calls _one_shard_cycle
\* again and again: there is a handoff device at every cleave and no kill, a
\* creation PUT may miss its quorum in a cycle, and cycles in which every PUT
\* reaches it keep being taken. call counts those cycles (modulo 2).
FairInit ==
    /\ conf \in {c \in Confs : c.is_root /\ c.node_index = 0 /\ c.auto_shard
                               /\ ~c.db_deleted}
    /\ db_state = UNSHARDED
    /\ own = InitOwn(conf.is_root)
    /\ ranges = {}
    /\ scan_done = FALSE
    /\ epoch = 0
    /\ ctx = [cursor |-> NoCursor, done |-> FALSE]
    /\ objects = Names
    /\ shards = <<>>
    /\ sent = <<>>
    /\ driver = NoDriver
    /\ call = [op |-> "run_forever", cycles |-> 0]
    /\ hist = [[HistReset([once |-> {}, twice |-> {}, killed |-> FALSE,
                         reports |-> 0, runs |-> 0, cycle |-> FALSE,
                         scanned |-> FALSE, found |-> 0,
                         scan_complete |-> FALSE])
               EXCEPT !.runs = 0] EXCEPT !.cycle = FALSE]

\* run_forever has finished one more cycle in which nothing failed.
Ticks == call' = [call EXCEPT !.cycles = 1 - @]

\* What a cycle in which nothing failed has written.
PutClean(w) ==
    /\ ~w.hist.faulty
    /\ InstallWorld(w)
    /\ Ticks
    /\ UNCHANGED <<conf, driver>>

\* The scan of the cycle found nothing and was not the last.
ScanFailed(h) == h.scanned /\ h.found = 0 /\ ~h.scan_complete

\* What a cycle in which a creation PUT failed has written.
PutFaulty(w) ==
    /\ w.hist.faulty /\ w.hist.stop = "none" /\ ~ScanFailed(w.hist)
    /\ Install(w)

\* A call of _process_broker in which nothing fails, or in which some
\* replica PUT of a creation fails.
PutEither(w) ==
    \/ PutClean(w)
    \/ PutFaulty(w)

FairCycle == \E v \in ProcessBrokerOutcomes : PutEither(v)

FairNext ==
    \/ FairCycle
    \/ ShardReports
    \/ DonorReports

\* Only a clean cycle changes call, and one can be taken in every state: the
\* fairness condition says that clean cycles keep being taken.
FairSpec == FairInit /\ [][FairNext]_vars /\ WF_call(Ticks)

\* The db is SHARDED and no live shard range is still to be created or
\* cleaved.
ShardedAndCleaved ==
    /\ db_state = SHARDED
    /\ \A r \in LiveRanges : r.state \notin {SR_FOUND, SR_CREATED}

\* C38: a root broker in SHARDING state on the leader, whose cycles keep
\* running, eventually reaches db state SHARDED with every found range
\* created and cleaved.
C38_EventuallyCleaved == (db_state = SHARDING) ~> ShardedAndCleaved

\* The part that holds: the db state SHARDED is reached.
C38_EventuallySharded == (db_state = SHARDING) ~> (db_state = SHARDED)

\* A FOUND range of a SHARDED root stays FOUND: no later cycle creates it.
C38_FoundForEver ==
    [][\A r \in LiveRanges :
          (db_state = SHARDED /\ r.state = SR_FOUND) => r \in LiveRanges']_vars

\* A cycle in which the scan ended and a creation PUT missed its quorum has
\* left the root SHARDED with a range still FOUND.
C38_ShardedWithFound ==
    /\ db_state = SHARDED /\ hist.completed /\ hist.create_failed
    /\ \E r \in LiveRanges : r.state = SR_FOUND

\* A cycle that created more ranges than its scan found (a FOUND range left
\* by a failed creation was created) and completed the sharding.
C38_RetriedAndCleaved ==
    /\ ShardedAndCleaved /\ hist.completed
    /\ hist.created > hist.found

====
